---- MODULE Spec2Model ----
(***************************************************************************)
(* Deposit wallet pool and blockchain-deposit ingestion of api-alpha-pro.  *)
(*                                                                         *)
(* The persistent store (Prisma/PostgreSQL) is modelled by four variables: *)
(* users, wallets (DepositWallet), deposits (Deposit) and transactions     *)
(* (Transaction).  Every await of the TypeScript code is one step of a     *)
(* process; the statement between two awaits is part of the step.          *)
(*                                                                         *)
(* Time is an integer clock counted in lease periods (one hour).  Money is *)
(* an integer amount of USDT; the inputs are chosen so that the percentage *)
(* arithmetic of the code is exact.  Text (descriptions, user names, asset *)
(* labels) is a sequence of text fragments and the `contains` filter of    *)
(* the store is computed on it as a contiguous-subsequence test.           *)
(***************************************************************************)
EXTENDS Integers, Sequences, FiniteSets, TLC

VARIABLES
    users,          \* User rows: username, referredBy, balance, totalDeposits
    wallets,        \* DepositWallet rows, the row id is the index
    deposits,       \* Deposit rows, the row id is the index
    transactions,   \* Transaction rows (append only)
    now,            \* the wall clock
    wh,             \* webhook deliveries in flight: one record per handler slot
    ga,             \* getOrAssignWallet calls in flight: one record per caller slot
    rp,             \* the run of the expiry cron job
    op              \* a DepositsService / admin call in flight

db == <<users, wallets, deposits, transactions>>
\* what a step of a webhook handler leaves alone besides the store
env == <<now, ga, rp, op>>
vars == <<users, wallets, deposits, transactions, now, wh, ga, rp, op>>

----------------------------------------------------------------------------
(* Bounds of the model *)

\* deliveries and createDeposit calls are accepted while the Deposit table
\* holds fewer rows than this
MaxDeposits == 2
\* a request for an address that would derive a wallet is accepted while the
\* pool holds fewer wallets than this
MaxWallets == 4
\* the clock stops here
MaxTime == 2
\* a confirmation through a controller is accepted while the Transaction
\* table holds fewer rows than this
MaxRecords == 6

----------------------------------------------------------------------------
(* Program constants *)

DEPOSIT_BONUS_PERCENT == 3
REFERRAL_BONUS_PERCENT == 7
MIN_DEPOSIT == 100
REFERRAL_DEPOSIT_BONUS_PERCENT == 7
WALLET_ASSIGNMENT_DURATION == 1

\* SQL NULL of a nullable TIMESTAMP column
NULL == -1
\* null of a nullable TEXT column / undefined of a JS string
NoUser == "null"
NoTx == "null"
\* the placeholder user id written by the orphan and wrong-currency paths
PLACEHOLDER_USER == "00000000-0000-0000-0000-000000000000"
\* a JS number: parseFloat's NaN, or a finite value
NaN == [nan |-> TRUE, v |-> 0]
Num(n) == [nan |-> FALSE, v |-> n]

Handlers == {"h1", "h2"}
UserIds == {"u1", "u2", "u3", "u4"}
Networks == {"BEP20", "TRC20"}
TxIds == {"t1", "t2"}

----------------------------------------------------------------------------
(* Text *)

\* String.prototype.includes / Prisma's { contains: ... } filter
Contains(text, pat) ==
    \E i \in 0..(Len(text) - Len(pat)) : SubSeq(text, i + 1, i + Len(pat)) = pat

\* String.prototype.toUpperCase on the fragments used by the asset labels
ToUpperFragment(f) ==
    CASE f = "usdt" -> "USDT"
      [] f = "Usdt" -> "USDT"
      [] OTHER -> f

toUpperCase(text) == [i \in 1..Len(text) |-> ToUpperFragment(text[i])]

\* the description of the depositor's own bonus record
DepositBonusDescription == <<"3", "% ", "deposit bonus">>
\* the pattern of the one-time check of the deposit bonus
DepositBonusPattern == <<"% ", "deposit bonus">>
\* the description of a referrer's commission record
ReferralBonusDescription(username) ==
    <<"7", "% ", "referral bonus ", "from ">> \o username \o <<"'s deposit">>
\* the pattern of the one-time check of the referral commission
ReferralBonusPattern(username) == <<"from ">> \o username \o <<"'s deposit">>
DepositDescription(network) == <<"Deposit via ", network>>

----------------------------------------------------------------------------
(* Pure helpers of the webhook controller *)

validAssets ==
    { <<"USDT">>, <<"USDT", "_BSC">>, <<"USDT", "_TRON">>, <<"BSC_", "USDT">>,
      <<"TRC20_", "USDT">>, <<"BEP20_", "USDT">>,
      <<"0x55d398326f99059fF775485246999027B3197955">>,
      <<"0x337610d27c682E347C9cD60BD4b3b107C9d34dDd">>,
      <<"TR7NHqjeKQxGTCi8q8ZY4pL8otSzgjLj6t">> }

\* a faulty asset check that accepts every label
AnyAssetIsValid(asset) == asset = asset

isValidDepositAsset(asset) ==
    \E valid \in validAssets : Contains(toUpperCase(asset), toUpperCase(valid))

\* parseFloat on the amount strings the model delivers; it reads the
\* longest prefix that is a number and ignores what follows
parseFloat(s) ==
    CASE s = "100" -> Num(100)
      [] s = "200" -> Num(200)
      [] s = "1000" -> Num(1000)
      [] s = "0" -> Num(0)
      [] s = "-100" -> Num(-100)
      [] s = "100abc" -> Num(100)
      [] OTHER -> NaN

isNaN(x) == x.nan

\* parseFloat(amount) || 0
parseFloatOrZero(s) == IF isNaN(parseFloat(s)) THEN 0 ELSE parseFloat(s).v

----------------------------------------------------------------------------
(* Store helpers *)

Indices(seq) == 1..Len(seq)

\* derivation of a receive address from the network's HD seed and an index
DeriveAddress(network, index) == <<network, index>>

\* the foreign key Deposit.userId -> User.id
DepositForeignKeyOk(row) == row.userId \in DOMAIN users

\* a faulty duplicate lookup that sees confirmed deposits only
ConfirmedDepositExistsWithTx(txId) ==
    \E i \in Indices(deposits) :
        deposits[i].txHash = txId /\ deposits[i].status = "CONFIRMED"

\* prisma.deposit.findFirst({ where: { txHash } })
DepositExistsWithTx(txId) == \E i \in Indices(deposits) : deposits[i].txHash = txId

\* walletPoolService.findWalletByAddress: the wallet id, or 0 for null
findWalletByAddress(address) ==
    IF \E i \in Indices(wallets) : wallets[i].address = address
    THEN CHOOSE i \in Indices(wallets) : wallets[i].address = address
    ELSE 0

\* prisma.transaction.findFirst of the one-time deposit bonus check
ExistingBonus(userId) ==
    \E i \in Indices(transactions) :
        /\ transactions[i].userId = userId
        /\ transactions[i].type = "DEPOSIT_BONUS"
        /\ transactions[i].status = "CONFIRMED"
        /\ Contains(transactions[i].description, DepositBonusPattern)

\* prisma.transaction.findFirst of the one-time referral commission check
ExistingReferralBonus(referrerId, username) ==
    \E i \in Indices(transactions) :
        /\ transactions[i].userId = referrerId
        /\ transactions[i].type = "DEPOSIT_BONUS"
        /\ transactions[i].status = "CONFIRMED"
        /\ Contains(transactions[i].description, ReferralBonusPattern(username))

----------------------------------------------------------------------------
(* Rows *)

\* the private key that controls an address, and the address computed from a
\* private key (ethers computeAddress, tronWeb.address.fromPrivateKey)
PrivateKeyOf(address) == <<"key", address>>
computeAddress(privateKey) == privateKey[2]

\* AES-256-GCM under a key derived from the secret and a random salt; decrypt
\* fails its authentication under any other secret
ENCRYPTION_SECRET == "secret"
encrypt(text, secret, salt) == [ salt |-> salt, key |-> <<secret, salt>>, data |-> text ]
decrypt(encryptedData, secret) ==
    IF encryptedData.key = <<secret, encryptedData.salt>>
    THEN encryptedData.data
    ELSE <<"key", <<"unauthentic", 0>>>>

WalletRow(address, network, index, webhookId) ==
    [ address |-> address, network |-> network, derivationIndex |-> index,
      privateKey |-> encrypt(PrivateKeyOf(address), ENCRYPTION_SECRET, 1),
      webhookId |-> webhookId, assignedToUserId |-> NoUser, assignedAt |-> NULL,
      expiresAt |-> NULL, isAvailable |-> TRUE, totalDeposits |-> 0,
      lastUsedAt |-> NULL ]

DepositRow(userId, amount, network, address, walletId, txHash, currency, status, bonusAmount, expiresAt) ==
    [ userId |-> userId, amount |-> amount, network |-> network,
      depositAddress |-> address, depositWalletId |-> walletId,
      txHash |-> txHash, currency |-> currency, status |-> status,
      bonusAmount |-> bonusAmount, expiresAt |-> expiresAt ]

TransactionRow(userId, type, amount, reference, description) ==
    [ userId |-> userId, type |-> type, amount |-> amount,
      status |-> "CONFIRMED", reference |-> reference,
      description |-> description ]

----------------------------------------------------------------------------
(* Webhook ingestion: WebhookController.handleTatumWebhook and            *)
(* processIncomingDeposit, one step per await                              *)

HandlerIdle ==
    [ pc |-> "idle", address |-> <<"none", 0>>, txId |-> NoTx, amount |-> "0",
      asset |-> <<>>, walletId |-> 0, wUser |-> NoUser, wNetwork |-> "BEP20",
      existingBonus |-> FALSE, result |-> "none", logged |-> "none",
      signatureValid |-> TRUE ]

\* a faulty handler without the catch: a failure leaves as an exception
ReturnOrThrow(h, status, line) ==
    wh' = [wh EXCEPT ![h] = [HandlerIdle EXCEPT
                !.address = wh[h].address, !.txId = wh[h].txId,
                !.amount = wh[h].amount, !.asset = wh[h].asset,
                !.signatureValid = wh[h].signatureValid,
                !.result = IF status = "error" THEN "exception" ELSE status,
                !.logged = line]]

\* the handler returns { status: 'ok' }, or { status: 'error' } from the catch;
\* logged is the last line the handler wrote to the log
Return(h, status, line) ==
    wh' = [wh EXCEPT ![h] = [HandlerIdle EXCEPT
                !.address = wh[h].address, !.txId = wh[h].txId,
                !.amount = wh[h].amount, !.asset = wh[h].asset,
                !.signatureValid = wh[h].signatureValid,
                !.result = status, !.logged = line]]

\* @HttpCode(HttpStatus.OK) for a returned body, 500 for an exception that
\* leaves the handler
HttpStatusOf(result) == IF result \in {"ok", "error"} THEN 200 ELSE 500

Goto(h, label) == wh' = [wh EXCEPT ![h].pc = label]
Goto_ga(c, label) == ga' = [ga EXCEPT ![c].pc = label]

Callers == {"c1", "c2"}

\* a getOrAssignWallet call that is not running
CallerIdle ==
    [ pc |-> "idle", userId |-> NoUser, network |-> "BEP20", walletId |-> 0,
      assignedAt |-> NULL, expiresAt |-> NULL, nextIndex |-> 0,
      address |-> <<"none", 0>>, privateKey |-> <<"key", <<"none", 0>>>>,
      isNew |-> FALSE, result |-> "none" ]

\* a DepositsService call that is not running
OpIdle ==
    [ pc |-> "idle", kind |-> "none", userId |-> NoUser, amount |-> 0,
      network |-> "BEP20", walletId |-> 0, address |-> <<"none", 0>>,
      expiresAt |-> NULL, depositId |-> 0, txHash |-> NoTx, result |-> "none",
      caller |-> "none" ]

\* the cron job between two runs
ReaperIdle == [ pc |-> "idle", now |-> NULL, expired |-> {}, todo |-> {} ]

\* no request and no job is between two awaits
AllIdle ==
    /\ \A h \in Handlers : wh[h].pc = "idle"
    /\ \A c \in Callers : ga[c].pc = "idle"
    /\ rp.pc = "idle"
    /\ op.pc = "idle"

\* What the finished requests returned stays readable until the next request
\* of a serialised run starts; in a concurrent run it stays until the slot is
\* used again.
Handled(sequential) ==
    IF sequential THEN [h \in Handlers |-> HandlerIdle] ELSE wh
Called(sequential) ==
    IF sequential THEN [c \in Callers |-> CallerIdle] ELSE ga
Served(sequential) ==
    IF sequential THEN OpIdle ELSE op

\* POST /webhooks/tatum arrives; sequential = TRUE serialises the deliveries
Deliver(h, address, txId, amount, asset, sequential) ==
    /\ wh[h].pc = "idle"
    /\ Len(deposits) < MaxDeposits
    /\ sequential => AllIdle
    /\ wh' = [Handled(sequential) EXCEPT ![h] = [HandlerIdle EXCEPT
                !.pc = "dup", !.address = address, !.txId = txId,
                !.amount = amount, !.asset = asset]]
    /\ ga' = Called(sequential)
    /\ op' = Served(sequential)
    /\ UNCHANGED <<db, now, rp>>

\* the x-payload-hash header: absent, or an HMAC of some payload
NoHash == <<>>
Hmac(payload) == <<"hmac", payload>>

\* verifyWebhookSignature: no header or no secret passes
verifyWebhookSignature(payload, receivedHash, secretSet) ==
    IF receivedHash = NoHash
    THEN TRUE
    ELSE IF ~secretSet
         THEN TRUE
         ELSE Hmac(payload) = receivedHash

\* a faulty handler that drops a notification with a bad signature
StopOnBadSignature(isValid) == IF isValid THEN "dup" ELSE "idle"

\* if (!isValid) { logger.warn(...) }: processing starts in either case
AfterSignatureCheck(isValid) == "dup"

\* POST /webhooks/tatum with its signature header: a mismatch is logged and
\* the notification is processed all the same
DeliverSigned(h, address, txId, amount, asset, receivedHash, secretSet, sequential) ==
    /\ wh[h].pc = "idle"
    /\ Len(deposits) < MaxDeposits
    /\ sequential => AllIdle
    /\ wh' = [Handled(sequential) EXCEPT ![h] = [HandlerIdle EXCEPT
                !.pc = AfterSignatureCheck(
                         verifyWebhookSignature(<<address, txId, amount, asset>>,
                                                receivedHash, secretSet)),
                !.address = address, !.txId = txId,
                !.amount = amount, !.asset = asset,
                !.signatureValid =
                    verifyWebhookSignature(<<address, txId, amount, asset>>,
                                           receivedHash, secretSet)]]
    /\ ga' = Called(sequential)
    /\ op' = Served(sequential)
    /\ UNCHANGED <<db, now, rp>>

\* step 1: was this transaction already processed?
DuplicateLookup(h) ==
    /\ wh[h].pc = "dup"
    /\ IF DepositExistsWithTx(wh[h].txId)
       THEN Return(h, "ok", "already processed")
       ELSE Goto(h, "wallet")
    /\ UNCHANGED <<db, env>>

\* a faulty holder lookup that honours the expiry of the lease
UnexpiredLeaseHolder(wallet) ==
    IF wallet.expiresAt # NULL /\ wallet.expiresAt > now
    THEN wallet.assignedToUserId
    ELSE NoUser

\* wallet.assignedToUserId, read without regard to wallet.expiresAt
LeaseHolder(wallet) == wallet.assignedToUserId

\* step 2: resolve the wallet, then the synchronous checks that follow it
WalletLookup(h) ==
    /\ wh[h].pc = "wallet"
    /\ LET w == findWalletByAddress(wh[h].address)
           depositAmount == parseFloat(wh[h].amount)
       IN  IF w = 0
           THEN Return(h, "ok", "unknown address")
           ELSE IF LeaseHolder(wallets[w]) = NoUser
           THEN wh' = [wh EXCEPT ![h].pc = "orphan", ![h].walletId = w,
                                 ![h].wNetwork = wallets[w].network]
           ELSE IF ~isValidDepositAsset(wh[h].asset)
           THEN wh' = [wh EXCEPT ![h].pc = "wrongUser", ![h].walletId = w,
                                 ![h].wUser = LeaseHolder(wallets[w]),
                                 ![h].wNetwork = wallets[w].network]
           ELSE IF isNaN(depositAmount) \/ depositAmount.v <= 0
           THEN Return(h, "ok", "invalid amount")
           ELSE wh' = [wh EXCEPT ![h].pc = "user", ![h].walletId = w,
                                 ![h].wUser = LeaseHolder(wallets[w]),
                                 ![h].wNetwork = wallets[w].network]
    /\ UNCHANGED <<db, env>>

\* recordOrphanDeposit: a PENDING deposit owned by the placeholder user
RecordOrphanDeposit(h) ==
    /\ wh[h].pc = "orphan"
    /\ LET row == DepositRow(PLACEHOLDER_USER, parseFloatOrZero(wh[h].amount),
                             wh[h].wNetwork, wh[h].address, wh[h].walletId,
                             wh[h].txId, wh[h].asset, "PENDING", 0, NULL)
       IN  IF DepositForeignKeyOk(row)
           THEN /\ deposits' = Append(deposits, row)
                /\ Return(h, "ok", "orphan deposit")
           ELSE /\ deposits' = deposits
                /\ Return(h, "error", "failed to process")
    /\ UNCHANGED <<users, wallets, transactions, env>>

\* recordWrongCurrencyDeposit, the user lookup
WrongCurrencyUser(h) ==
    /\ wh[h].pc = "wrongUser"
    /\ Goto(h, "wrongWrite")
    /\ UNCHANGED <<db, env>>

\* recordWrongCurrencyDeposit, the FAILED deposit
WrongCurrencyWrite(h) ==
    /\ wh[h].pc = "wrongWrite"
    /\ LET owner == IF wh[h].wUser \in DOMAIN users
                    THEN wh[h].wUser ELSE PLACEHOLDER_USER
           row == DepositRow(owner, parseFloatOrZero(wh[h].amount),
                             wh[h].wNetwork, wh[h].address, wh[h].walletId,
                             wh[h].txId, wh[h].asset, "FAILED", 0, NULL)
       IN  IF DepositForeignKeyOk(row)
           THEN /\ deposits' = Append(deposits, row)
                /\ Goto(h, "wrongEmail")
           ELSE /\ deposits' = deposits
                /\ Return(h, "error", "failed to process")
    /\ UNCHANGED <<users, wallets, transactions, env>>

\* recordWrongCurrencyDeposit, the notification (a failure is caught)
WrongCurrencyEmail(h) ==
    /\ wh[h].pc = "wrongEmail"
    /\ Return(h, "ok", "wrong currency")
    /\ UNCHANGED <<db, env>>

\* step 3: the owner of the lease
UserLookup(h) ==
    /\ wh[h].pc = "user"
    /\ IF wh[h].wUser \in DOMAIN users
       THEN Goto(h, "bonus")
       ELSE Return(h, "ok", "user not found")
    /\ UNCHANGED <<db, env>>

\* step 4: has the owner received the deposit bonus before?
BonusLookup(h) ==
    /\ wh[h].pc = "bonus"
    /\ wh' = [wh EXCEPT ![h].pc = "commit",
                        ![h].existingBonus = ExistingBonus(wh[h].wUser)]
    /\ UNCHANGED <<db, env>>

\* (depositAmount * depositBonus) / 100, or 0 after a first bonus
BonusAmount(depositAmount, existingBonus) ==
    IF existingBonus THEN 0 ELSE (depositAmount * DEPOSIT_BONUS_PERCENT) \div 100

\* a faulty commit that credits the deposit and writes no transaction record
CommitWithoutRecords(userId, depositAmount, bonusAmount, network, address, walletId, txId, asset) ==
    [ deposits |->
        Append(deposits,
               DepositRow(userId, depositAmount, network, address, walletId,
                          txId, asset, "CONFIRMED", bonusAmount, NULL)),
      users |->
        [users EXCEPT ![userId].balance = @ + depositAmount + bonusAmount,
                      ![userId].totalDeposits = @ + depositAmount],
      transactions |-> transactions ]

\* the operations of prisma.$transaction(txOps), applied together
LedgerCommit(userId, depositAmount, bonusAmount, network, address, walletId, txId, asset) ==
    [ deposits |->
        Append(deposits,
               DepositRow(userId, depositAmount, network, address, walletId,
                          txId, asset, "CONFIRMED", bonusAmount, NULL)),
      users |->
        [users EXCEPT ![userId].balance = @ + depositAmount + bonusAmount,
                      ![userId].totalDeposits = @ + depositAmount],
      transactions |->
        LET t1 == Append(transactions,
                         TransactionRow(userId, "DEPOSIT", depositAmount, txId,
                                        DepositDescription(network)))
        IN  IF bonusAmount > 0
            THEN Append(t1, TransactionRow(userId, "DEPOSIT_BONUS", bonusAmount,
                                           NoTx, DepositBonusDescription))
            ELSE t1 ]

\* step 5: the atomic commit; the store either applies all of it or none
Commit(h) ==
    /\ wh[h].pc = "commit"
    /\ \E storeOk \in BOOLEAN :
         LET depositAmount == parseFloat(wh[h].amount).v
             bonusAmount == BonusAmount(depositAmount, wh[h].existingBonus)
             c == LedgerCommit(wh[h].wUser, depositAmount, bonusAmount,
                               wh[h].wNetwork, wh[h].address, wh[h].walletId,
                               wh[h].txId, wh[h].asset)
         IN  IF storeOk
             THEN /\ deposits' = c.deposits
                  /\ users' = c.users
                  /\ transactions' = c.transactions
                  /\ Goto(h, "mark")
             ELSE /\ UNCHANGED <<deposits, users, transactions>>
                  /\ Return(h, "error", "failed to process")
    /\ UNCHANGED <<wallets, env>>

\* a faulty markWalletUsed that also gives the wallet back to the pool
markWalletUsedAndRelease(walletId) ==
    [wallets EXCEPT ![walletId].totalDeposits = @ + 1,
                    ![walletId].lastUsedAt = now,
                    ![walletId].assignedToUserId = NoUser,
                    ![walletId].assignedAt = NULL,
                    ![walletId].expiresAt = NULL,
                    ![walletId].isAvailable = TRUE]

\* WalletPoolService.markWalletUsed
markWalletUsed(walletId) ==
    [wallets EXCEPT ![walletId].totalDeposits = @ + 1,
                    ![walletId].lastUsedAt = now]

\* step 6: count the deposit on the wallet
MarkUsed(h) ==
    /\ wh[h].pc = "mark"
    /\ wallets' = markWalletUsed(wh[h].walletId)
    /\ Goto(h, "refUser")
    /\ UNCHANGED <<users, deposits, transactions, env>>

\* processReferralBonus, the depositor with the referrer
ReferralUser(h) ==
    /\ wh[h].pc = "refUser"
    /\ IF users[wh[h].wUser].referredBy = NoUser
       THEN Goto(h, "email")
       ELSE Goto(h, "refCheck")
    /\ UNCHANGED <<db, env>>

\* processReferralBonus, the one-time check
ReferralCheck(h) ==
    /\ wh[h].pc = "refCheck"
    /\ IF ExistingReferralBonus(users[wh[h].wUser].referredBy,
                                users[wh[h].wUser].username)
       THEN Goto(h, "email")
       ELSE Goto(h, "refCommit")
    /\ UNCHANGED <<db, env>>

\* the two operations of processReferralBonus's prisma.$transaction
\* a faulty commission computed on the credited total, bonus included
ReferralCommitOnTotal(referrerId, username, depositAmount) ==
    LET totalAmount == depositAmount + BonusAmount(depositAmount, FALSE)
        bonusAmount == (totalAmount * REFERRAL_DEPOSIT_BONUS_PERCENT) \div 100
    IN  [ users |-> [users EXCEPT ![referrerId].balance = @ + bonusAmount],
          transactions |->
            Append(transactions,
                   TransactionRow(referrerId, "DEPOSIT_BONUS", bonusAmount, NoTx,
                                  ReferralBonusDescription(username))) ]

\* a faulty commission that is also paid to the referrer of the referrer
ReferralCommitTwoLevels(referrerId, username, depositAmount) ==
    LET bonusAmount == (depositAmount * REFERRAL_DEPOSIT_BONUS_PERCENT) \div 100
        second == users[referrerId].referredBy
        paid == [users EXCEPT ![referrerId].balance = @ + bonusAmount]
    IN  [ users |-> IF second = NoUser THEN paid
                    ELSE [paid EXCEPT ![second].balance = @ + bonusAmount],
          transactions |->
            Append(transactions,
                   TransactionRow(referrerId, "DEPOSIT_BONUS", bonusAmount, NoTx,
                                  ReferralBonusDescription(username))) ]

ReferralCommit(referrerId, username, depositAmount) ==
    LET bonusAmount == (depositAmount * REFERRAL_DEPOSIT_BONUS_PERCENT) \div 100
    IN  [ users |-> [users EXCEPT ![referrerId].balance = @ + bonusAmount],
          transactions |->
            Append(transactions,
                   TransactionRow(referrerId, "DEPOSIT_BONUS", bonusAmount, NoTx,
                                  ReferralBonusDescription(username))) ]

\* processReferralBonus, the commission
ReferralWrite(h) ==
    /\ wh[h].pc = "refCommit"
    /\ LET c == ReferralCommit(users[wh[h].wUser].referredBy,
                               users[wh[h].wUser].username,
                               parseFloat(wh[h].amount).v)
       IN  /\ users' = c.users
           /\ transactions' = c.transactions
    /\ Goto(h, "email")
    /\ UNCHANGED <<wallets, deposits, env>>

\* step 8: the confirmation email (a failure is caught and logged)
ConfirmationEmail(h) ==
    /\ wh[h].pc = "email"
    /\ Return(h, "ok", "deposit confirmed")
    /\ UNCHANGED <<db, env>>

\* a faulty handling of a failed email: the error leaves the handler
UncaughtEmailError(h) == Return(h, "error", "failed to process")

\* catch (emailError): the failure is logged and the handler goes on to its
\* last log line
CaughtEmailError(h) == Return(h, "ok", "deposit confirmed")

\* step 8 when sendDepositConfirmation throws: the catch block is entered
ConfirmationEmailFails(h) ==
    /\ wh[h].pc = "email"
    /\ Goto(h, "emailFailed")
    /\ UNCHANGED <<db, env>>

\* the catch block of step 8
ConfirmationEmailCaught(h) ==
    /\ wh[h].pc = "emailFailed"
    /\ CaughtEmailError(h)
    /\ UNCHANGED <<db, env>>

\* step 6 when markWalletUsed throws: the error leaves processIncomingDeposit
\* and is caught by handleTatumWebhook
MarkUsedFails(h) ==
    /\ wh[h].pc = "mark"
    /\ Return(h, "error", "failed to process")
    /\ UNCHANGED <<db, env>>

\* step 7 when the commission's $transaction throws: as for step 6
ReferralWriteFails(h) ==
    /\ wh[h].pc = "refCommit"
    /\ Return(h, "error", "failed to process")
    /\ UNCHANGED <<db, env>>

\* one step of the handler in slot h
HandlerStep(h) ==
    \/ DuplicateLookup(h)
    \/ WalletLookup(h)
    \/ RecordOrphanDeposit(h)
    \/ UserLookup(h)
    \/ BonusLookup(h)
    \/ Commit(h)
    \/ MarkUsed(h)
    \/ ReferralUser(h)
    \/ ReferralCheck(h)
    \/ ReferralWrite(h)
    \/ ConfirmationEmail(h)

\* the steps of the wrong-asset path
WrongCurrencyStep(h) ==
    \/ WrongCurrencyUser(h)
    \/ WrongCurrencyWrite(h)
    \/ WrongCurrencyEmail(h)

----------------------------------------------------------------------------
(* Wallet pool: WalletPoolService.getOrAssignWallet, one step per await    *)

\* a faulty return that reports an extended expiry
ReturnWalletExtended(c, address, expiresAt, isNew) ==
    ga' = [ga EXCEPT ![c] = [CallerIdle EXCEPT
                !.userId = ga[c].userId, !.network = ga[c].network,
                !.address = address,
                !.expiresAt = expiresAt + WALLET_ASSIGNMENT_DURATION,
                !.isNew = isNew, !.result = "ok"]]

\* the call returns { address, expiresAt, isNew }
ReturnWallet(c, address, expiresAt, isNew) ==
    ga' = [ga EXCEPT ![c] = [CallerIdle EXCEPT
                !.userId = ga[c].userId, !.network = ga[c].network,
                !.address = address, !.expiresAt = expiresAt,
                !.isNew = isNew, !.result = "ok"]]

\* the call throws
ThrowWallet(c) ==
    ga' = [ga EXCEPT ![c] = [CallerIdle EXCEPT
                !.userId = ga[c].userId, !.network = ga[c].network,
                !.result = "error"]]

\* the rows of findFirst({ assignedToUserId, network, expiresAt: { gt: now } })
ActiveAssignments(userId, network) ==
    { i \in Indices(wallets) :
        /\ wallets[i].assignedToUserId = userId
        /\ wallets[i].network = network
        /\ wallets[i].expiresAt # NULL
        /\ wallets[i].expiresAt > now }

\* ORDER BY "lastUsedAt" ASC: PostgreSQL sorts NULL after every value
LastUsedBefore(i, j) ==
    \/ wallets[j].lastUsedAt = NULL
    \/ /\ wallets[i].lastUsedAt # NULL
       /\ wallets[i].lastUsedAt <= wallets[j].lastUsedAt

\* the rows findFirst({ network, isAvailable: true }, orderBy lastUsedAt asc)
\* may return: the available wallets of the network that sort first
LeastRecentlyUsed(network) ==
    LET available == { i \in Indices(wallets) :
                         wallets[i].network = network /\ wallets[i].isAvailable }
    IN  { i \in available : \A j \in available : LastUsedBefore(i, j) }

\* GET /deposits/address arrives for an authenticated user
GetOrAssignWallet(c, userId, network, sequential) ==
    /\ ga[c].pc = "idle"
    /\ \/ Len(wallets) < MaxWallets
       \/ ActiveAssignments(userId, network) # {}
       \/ LeastRecentlyUsed(network) # {}
    /\ sequential => AllIdle
    /\ ga' = [Called(sequential) EXCEPT ![c] = [CallerIdle EXCEPT
                !.pc = "existing", !.userId = userId, !.network = network]]
    /\ wh' = Handled(sequential)
    /\ op' = Served(sequential)
    /\ UNCHANGED <<db, now, rp>>

\* a faulty validation that lets any network through
AnyNetworkIsValid(network) == network = network

\* ['BEP20', 'TRC20'].includes(walletNetwork)
IsValidNetwork(network) == network \in {"BEP20", "TRC20"}

\* DepositsService.getDepositAddress: the network is validated before the
\* pool is asked
GetDepositAddress(c, userId, network, sequential) ==
    IF IsValidNetwork(network)
    THEN GetOrAssignWallet(c, userId, network, sequential)
    ELSE /\ ga[c].pc = "idle"
         /\ sequential => AllIdle
         /\ ga' = [Called(sequential) EXCEPT ![c] = [CallerIdle EXCEPT
                     !.userId = userId, !.network = network,
                     !.result = "badRequest"]]
         /\ wh' = Handled(sequential)
         /\ op' = Served(sequential)
         /\ UNCHANGED <<db, now, rp>>

\* does the user hold a lease that has not expired?
FindExistingAssignment(c) ==
    /\ ga[c].pc = "existing"
    /\ LET found == ActiveAssignments(ga[c].userId, ga[c].network)
       IN  IF found # {}
           THEN \E i \in found :
                  IF wallets[i].webhookId = NULL
                  THEN ga' = [ga EXCEPT ![c].pc = "ensureExisting",
                                        ![c].walletId = i,
                                        ![c].expiresAt = wallets[i].expiresAt]
                  ELSE ReturnWallet(c, wallets[i].address,
                                    wallets[i].expiresAt, FALSE)
           ELSE Goto_ga(c, "available")
    /\ UNCHANGED <<db, now, wh, rp, op>>

\* ensureWebhook: subscribe the address and store the subscription id;
\* a failure of the Chain Service is logged and swallowed
ensureWebhook(walletId, subscribed) ==
    IF subscribed
    THEN [wallets EXCEPT ![walletId].webhookId = walletId]
    ELSE wallets

EnsureWebhookExisting(c) ==
    /\ ga[c].pc = "ensureExisting"
    /\ \E subscribed \in BOOLEAN :
         wallets' = ensureWebhook(ga[c].walletId, subscribed)
    /\ ReturnWallet(c, wallets[ga[c].walletId].address, ga[c].expiresAt, FALSE)
    /\ UNCHANGED <<users, deposits, transactions, now, wh, rp, op>>

\* is a wallet of the pool free?  Then now and expiresAt are fixed.
FindAvailableWallet(c) ==
    /\ ga[c].pc = "available"
    /\ LET lru == LeastRecentlyUsed(ga[c].network)
           expiresAt == now + WALLET_ASSIGNMENT_DURATION
       IN  IF lru # {}
           THEN \E i \in lru :
                  ga' = [ga EXCEPT
                    ![c].pc = IF wallets[i].webhookId = NULL
                              THEN "ensureAvailable" ELSE "assign",
                    ![c].walletId = i, ![c].assignedAt = now,
                    ![c].expiresAt = expiresAt]
           ELSE ga' = [ga EXCEPT ![c].pc = "genIndex", ![c].assignedAt = now,
                                 ![c].expiresAt = expiresAt]
    /\ UNCHANGED <<db, now, wh, rp, op>>

EnsureWebhookAvailable(c) ==
    /\ ga[c].pc = "ensureAvailable"
    /\ \E subscribed \in BOOLEAN :
         wallets' = ensureWebhook(ga[c].walletId, subscribed)
    /\ Goto_ga(c, "assign")
    /\ UNCHANGED <<users, deposits, transactions, now, wh, rp, op>>

\* depositWallet.update({ where: { id }, data: { assignedToUserId, ... } })
AssignUpdate(walletId, userId, assignedAt, expiresAt) ==
    [wallets EXCEPT ![walletId].assignedToUserId = userId,
                    ![walletId].assignedAt = assignedAt,
                    ![walletId].expiresAt = expiresAt,
                    ![walletId].isAvailable = FALSE]

\* the lease is written, for a pooled wallet and for a new one
AssignWallet(c) ==
    /\ ga[c].pc = "assign"
    /\ wallets' = AssignUpdate(ga[c].walletId, ga[c].userId, ga[c].assignedAt,
                               ga[c].expiresAt)
    /\ ReturnWallet(c, wallets[ga[c].walletId].address, ga[c].expiresAt,
                    ga[c].isNew)
    /\ UNCHANGED <<users, deposits, transactions, now, wh, rp, op>>

\* generateNewWallet: lastWallet ? lastWallet.derivationIndex + 1 : 0
NextDerivationIndex(network) ==
    LET used == { wallets[i].derivationIndex :
                    i \in { j \in Indices(wallets) : wallets[j].network = network } }
    IN  IF used = {} THEN 0
        ELSE (CHOOSE m \in used : \A k \in used : k <= m) + 1

\* the address and the private key for an index, by configuration:
\* "consistent": BSC_XPUB and BSC_MNEMONIC belong together;
\* "inconsistent": BSC_XPUB is the xpub of another mnemonic (the TRC20 address
\* is computed from the key and is not affected);
\* "test": no real keys configured, address and key are random and unrelated
GenerateAddress(mode, network, index) ==
    LET address == DeriveAddress(network, index)
    IN  CASE mode = "test" ->
               [ address |-> address, privateKey |-> PrivateKeyOf(<<"random", index>>) ]
          [] mode = "inconsistent" /\ network = "BEP20" ->
               [ address |-> address, privateKey |-> PrivateKeyOf(<<"other", index>>) ]
          [] OTHER ->
               [ address |-> address, privateKey |-> PrivateKeyOf(address) ]

GenerateIndex(c, modes) ==
    /\ ga[c].pc = "genIndex"
    /\ \E mode \in modes :
         LET nextIndex == NextDerivationIndex(ga[c].network)
             result == GenerateAddress(mode, ga[c].network, nextIndex)
         IN  ga' = [ga EXCEPT ![c].pc = "genCreate",
                              ![c].nextIndex = nextIndex,
                              ![c].address = result.address,
                              ![c].privateKey = result.privateKey]
    /\ UNCHANGED <<db, now, wh, rp, op>>

\* a faulty verification that accepts any pair
AnyKeyMatches(address, privateKey) == privateKey = privateKey

\* "Verify address matches private key"
AddressMatchesKey(address, privateKey) == computeAddress(privateKey) = address

\* a pool without the unique index on the address
AnyAddressIsFree(address) == address = address

\* the unique index DepositWallet_address_key
AddressIsFree(address) == \A i \in Indices(wallets) : wallets[i].address # address

\* generateNewWallet: verify, subscribe (best effort), encrypt the key under a
\* fresh salt, persist as available
GenerateCreate(c, subscriptions, salts) ==
    /\ ga[c].pc = "genCreate"
    /\ LET address == ga[c].address
       IN  IF AddressMatchesKey(address, ga[c].privateKey) /\ AddressIsFree(address)
           THEN \E subscribed \in subscriptions, salt \in salts :
                  /\ wallets' = Append(wallets,
                        [ WalletRow(address, ga[c].network, ga[c].nextIndex,
                                    IF subscribed THEN Len(wallets) + 1 ELSE NULL)
                          EXCEPT !.privateKey =
                            encrypt(ga[c].privateKey, ENCRYPTION_SECRET, salt) ])
                  /\ ga' = [ga EXCEPT ![c].pc = "assign",
                                      ![c].walletId = Len(wallets) + 1,
                                      ![c].isNew = TRUE]
           ELSE /\ wallets' = wallets
                /\ ThrowWallet(c)
    /\ UNCHANGED <<users, deposits, transactions, now, wh, rp, op>>

\* one step of the call in slot c with consistent keys configured;
\* subscriptions are the outcomes the Chain Service may give to a watch
\* subscription (TRUE: subscribed)
CallerStep(c, subscriptions) ==
    \/ FindExistingAssignment(c)
    \/ FindAvailableWallet(c)
    \/ AssignWallet(c)
    \/ GenerateIndex(c, {"consistent"})
    \/ GenerateCreate(c, subscriptions, {1})

\* one step of the call in slot c under any key configuration
KeyModes == {"consistent", "inconsistent", "test"}
CallerStepAnyKeys(c) ==
    \/ FindExistingAssignment(c)
    \/ FindAvailableWallet(c)
    \/ AssignWallet(c)
    \/ GenerateIndex(c, KeyModes)
    \/ GenerateCreate(c, {TRUE}, {1, 2})

\* the lazy retry of a watch subscription that failed before
EnsureWebhookStep(c) ==
    \/ EnsureWebhookExisting(c)
    \/ EnsureWebhookAvailable(c)

\* a faulty release that leaves the holder and the expiry in place
ReleasedInPart(wallet, at) ==
    [wallet EXCEPT !.isAvailable = TRUE, !.lastUsedAt = at]

\* depositWallet.update / updateMany: the lease fields are cleared
Released(wallet, at) ==
    [wallet EXCEPT !.assignedToUserId = NoUser, !.assignedAt = NULL,
                   !.expiresAt = NULL, !.isAvailable = TRUE, !.lastUsedAt = at]

----------------------------------------------------------------------------
(* Expiry cron job: WalletPoolService.releaseExpiredWallets                *)

\* a faulty scan that reads the leases that are not yet past their expiry
ExpiredLater(at) ==
    { i \in Indices(wallets) :
        /\ ~wallets[i].isAvailable
        /\ wallets[i].expiresAt # NULL
        /\ wallets[i].expiresAt > at }

\* findMany({ isAvailable: false, expiresAt: { lt: now } })
ExpiredWallets(at) ==
    { i \in Indices(wallets) :
        /\ ~wallets[i].isAvailable
        /\ wallets[i].expiresAt # NULL
        /\ wallets[i].expiresAt < at }

\* the job starts: now is fixed and the expired leases are read
ReaperScan(sequential) ==
    /\ rp.pc = "idle"
    /\ sequential => AllIdle
    /\ LET expired == ExpiredWallets(now)
       IN  IF expired = {}
           THEN rp' = rp
           ELSE rp' = [pc |-> "cancel", now |-> now, expired |-> expired,
                       todo |-> expired]
    /\ wh' = Handled(sequential)
    /\ ga' = Called(sequential)
    /\ op' = Served(sequential)
    /\ UNCHANGED <<db, now>>

\* a faulty cancellation that does not look at the status
CancelWhateverStatus(address, at) ==
    [ i \in Indices(deposits) |->
        IF /\ deposits[i].depositAddress = address
           /\ deposits[i].expiresAt # NULL
           /\ deposits[i].expiresAt < at
        THEN [deposits[i] EXCEPT !.status = "CANCELLED"]
        ELSE deposits[i] ]

\* deposit.updateMany({ depositAddress, status: PENDING, expiresAt < now })
CancelPending(address, at) ==
    [ i \in Indices(deposits) |->
        IF /\ deposits[i].depositAddress = address
           /\ deposits[i].status = "PENDING"
           /\ deposits[i].expiresAt # NULL
           /\ deposits[i].expiresAt < at
        THEN [deposits[i] EXCEPT !.status = "CANCELLED"]
        ELSE deposits[i] ]

\* one turn of the loop over the expired wallets, in the order of their ids
ReaperCancel ==
    /\ rp.pc = "cancel"
    /\ LET w == CHOOSE i \in rp.todo : \A j \in rp.todo : i <= j
       IN  /\ deposits' = CancelPending(wallets[w].address, rp.now)
           /\ rp' = [rp EXCEPT !.todo = @ \ {w},
                               !.pc = IF rp.todo = {w} THEN "release" ELSE "cancel"]
    /\ UNCHANGED <<users, wallets, transactions, now, wh, ga, op>>

\* depositWallet.updateMany({ where: { id: { in: ids } }, data: ... })
ReleaseMany(ids, at) ==
    [ i \in Indices(wallets) |->
        IF i \in ids THEN Released(wallets[i], at) ELSE wallets[i] ]

\* the batch release that ends the job
ReaperRelease ==
    /\ rp.pc = "release"
    /\ wallets' = ReleaseMany(rp.expired, rp.now)
    /\ rp' = ReaperIdle
    /\ UNCHANGED <<users, deposits, transactions, now, wh, ga, op>>

ReaperStep == ReaperCancel \/ ReaperRelease

\* WalletPoolService.releaseWallet(walletId): one update by id
ReleaseWallet(walletId, sequential) ==
    /\ walletId \in Indices(wallets)
    /\ sequential => AllIdle
    /\ wallets' = [wallets EXCEPT ![walletId] = Released(@, now)]
    /\ wh' = Handled(sequential)
    /\ ga' = Called(sequential)
    /\ op' = Served(sequential)
    /\ UNCHANGED <<users, deposits, transactions, now, rp>>

\* the updateMany calls of the loop, for all the wallets of a run
CancelPendingAll(ids, at) ==
    [ i \in Indices(deposits) |->
        IF /\ \E w \in ids : deposits[i].depositAddress = wallets[w].address
           /\ deposits[i].status = "PENDING"
           /\ deposits[i].expiresAt # NULL
           /\ deposits[i].expiresAt < at
        THEN [deposits[i] EXCEPT !.status = "CANCELLED"]
        ELSE deposits[i] ]

\* a second run of the cron job that overlaps the run in rp; it is taken
\* here without a step of anyone else between its scan and its release
ReaperOverlap ==
    /\ rp.pc # "idle"
    /\ ExpiredWallets(now) # {}
    /\ deposits' = CancelPendingAll(ExpiredWallets(now), now)
    /\ wallets' = ReleaseMany(ExpiredWallets(now), now)
    /\ UNCHANGED <<users, transactions, now, wh, ga, rp, op>>

\* the clock advances; in a serialised run it does so between two requests
Tick(sequential) ==
    /\ now < MaxTime
    /\ sequential => AllIdle
    /\ now' = now + 1
    /\ UNCHANGED <<db, wh, ga, rp, op>>

----------------------------------------------------------------------------
(* DepositsService.createDeposit and confirmDeposit, one step per await    *)

\* the call returns or throws; what it was called with stays readable
ReturnOp(status) ==
    op' = [OpIdle EXCEPT !.kind = op.kind, !.userId = op.userId,
                         !.amount = op.amount, !.network = op.network,
                         !.depositId = op.depositId, !.txHash = op.txHash,
                         !.caller = op.caller, !.result = status]

Goto_op(label) == op' = [op EXCEPT !.pc = label]

\* POST /deposits: the minimum is checked before the first await
CreateDeposit(userId, amount, network, sequential) ==
    /\ op.pc = "idle"
    /\ Len(deposits) < MaxDeposits
    /\ sequential => AllIdle
    /\ op' = [OpIdle EXCEPT
                !.kind = "createDeposit", !.userId = userId, !.amount = amount,
                !.network = network,
                !.pc = IF amount < MIN_DEPOSIT THEN "idle" ELSE "createFind",
                !.result = IF amount < MIN_DEPOSIT THEN "badRequest" ELSE "none"]
    /\ wh' = Handled(sequential)
    /\ ga' = Called(sequential)
    /\ UNCHANGED <<db, now, rp>>

\* a faulty lookup that takes any wallet of the network
WalletsOfNetwork(userId, network) ==
    { i \in Indices(wallets) : wallets[i].network = network }

\* a faulty lookup that does not look at the expiry
WalletsAssignedEver(userId, network) ==
    { i \in Indices(wallets) :
        /\ wallets[i].assignedToUserId = userId
        /\ wallets[i].network = network
        /\ ~wallets[i].isAvailable }

\* findFirst({ assignedToUserId, network, isAvailable: false, expiresAt > now })
AssignedWallets(userId, network) ==
    { i \in Indices(wallets) :
        /\ wallets[i].assignedToUserId = userId
        /\ wallets[i].network = network
        /\ ~wallets[i].isAvailable
        /\ wallets[i].expiresAt # NULL
        /\ wallets[i].expiresAt > now }

CreateDepositFind ==
    /\ op.pc = "createFind"
    /\ LET found == AssignedWallets(op.userId, op.network)
       IN  IF found = {}
           THEN ReturnOp("badRequest")
           ELSE \E i \in found :
                  op' = [op EXCEPT !.pc = "createWrite", !.walletId = i,
                                   !.address = wallets[i].address,
                                   !.expiresAt = wallets[i].expiresAt]
    /\ UNCHANGED <<db, now, wh, ga, rp>>

\* the PENDING deposit that inherits the expiry of the lease
CreateDepositWrite ==
    /\ op.pc = "createWrite"
    /\ deposits' = Append(deposits,
            DepositRow(op.userId, op.amount, op.network, op.address,
                       op.walletId, NoTx, <<"USDT">>, "PENDING", 0, op.expiresAt))
    /\ op' = [OpIdle EXCEPT !.kind = op.kind, !.userId = op.userId,
                            !.amount = op.amount, !.network = op.network,
                            !.depositId = Len(deposits) + 1, !.result = "ok"]
    /\ UNCHANGED <<users, wallets, transactions, now, wh, ga, rp>>

\* POST /deposits/:id/confirm and POST /admin/deposits/:id/confirm
ConfirmDeposit(depositId, txHash, sequential) ==
    /\ op.pc = "idle"
    /\ sequential => AllIdle
    /\ op' = [OpIdle EXCEPT !.kind = "confirmDeposit", !.pc = "confirmFind",
                            !.depositId = depositId, !.txHash = txHash]
    /\ wh' = Handled(sequential)
    /\ ga' = Called(sequential)
    /\ UNCHANGED <<db, now, rp>>

\* POST /deposits/:id/confirm: behind JwtAuthGuard, for any signed-in user and
\* any deposit id
UserConfirmDeposit(userId, depositId, txHash, sequential) ==
    /\ op.pc = "idle"
    /\ Len(transactions) < MaxRecords
    /\ sequential => AllIdle
    /\ op' = [OpIdle EXCEPT !.kind = "confirmDeposit", !.pc = "confirmFind",
                            !.depositId = depositId, !.txHash = txHash,
                            !.caller = userId]
    /\ wh' = Handled(sequential)
    /\ ga' = Called(sequential)
    /\ UNCHANGED <<db, now, rp>>

\* AdminController.verifyAdminAccess
ADMIN_SECRET == "admin-secret"
verifyAdminAccess(adminSecret) == adminSecret = ADMIN_SECRET

\* POST /admin/deposits/:id/confirm
AdminConfirmDeposit(adminSecret, depositId, txHash, sequential) ==
    /\ op.pc = "idle"
    /\ Len(transactions) < MaxRecords
    /\ sequential => AllIdle
    /\ op' = IF verifyAdminAccess(adminSecret)
             THEN [OpIdle EXCEPT !.kind = "confirmDeposit", !.pc = "confirmFind",
                                 !.depositId = depositId, !.txHash = txHash,
                                 !.caller = "admin"]
             ELSE [OpIdle EXCEPT !.kind = "confirmDeposit",
                                 !.depositId = depositId, !.txHash = txHash,
                                 !.result = "unauthorized"]
    /\ wh' = Handled(sequential)
    /\ ga' = Called(sequential)
    /\ UNCHANGED <<db, now, rp>>

\* POST /admin/deposits/:id/cancel: the status is overwritten, whatever it was
CancelDeposit(adminSecret, depositId, sequential) ==
    /\ op.pc = "idle"
    /\ sequential => AllIdle
    /\ IF ~verifyAdminAccess(adminSecret)
       THEN /\ deposits' = deposits
            /\ op' = [OpIdle EXCEPT !.kind = "cancelDeposit",
                                    !.depositId = depositId,
                                    !.result = "unauthorized"]
       ELSE IF depositId \notin Indices(deposits)
       THEN /\ deposits' = deposits
            /\ op' = [OpIdle EXCEPT !.kind = "cancelDeposit",
                                    !.depositId = depositId, !.caller = "admin",
                                    !.result = "error"]
       ELSE /\ deposits' = [deposits EXCEPT ![depositId].status = "CANCELLED"]
            /\ op' = [OpIdle EXCEPT !.kind = "cancelDeposit",
                                    !.depositId = depositId, !.caller = "admin",
                                    !.result = "ok"]
    /\ wh' = Handled(sequential)
    /\ ga' = Called(sequential)
    /\ UNCHANGED <<users, wallets, transactions, now, rp>>

\* a faulty status check that lets every deposit through
NeverConfirmed(deposit) == deposit # deposit

\* deposit.status === 'CONFIRMED'
AlreadyConfirmed(deposit) == deposit.status = "CONFIRMED"

\* findUnique({ id }): not found, already confirmed, or the row is kept
ConfirmDepositFind ==
    /\ op.pc = "confirmFind"
    /\ IF op.depositId \notin Indices(deposits)
       THEN ReturnOp("notFound")
       ELSE IF AlreadyConfirmed(deposits[op.depositId])
       THEN ReturnOp("badRequest")
       ELSE op' = [op EXCEPT !.pc = "confirmCommit",
                             !.userId = deposits[op.depositId].userId,
                             !.amount = deposits[op.depositId].amount,
                             !.network = deposits[op.depositId].network,
                             !.walletId = deposits[op.depositId].depositWalletId]
    /\ UNCHANGED <<db, now, wh, ga, rp>>

\* the four operations of confirmDeposit's prisma.$transaction
ManualCommit(depositId, txHash, userId, amount, network) ==
    LET bonusAmount == (amount * DEPOSIT_BONUS_PERCENT) \div 100
    IN  [ deposits |->
            [deposits EXCEPT ![depositId].status = "CONFIRMED",
                             ![depositId].txHash = txHash,
                             ![depositId].bonusAmount = bonusAmount],
          users |->
            [users EXCEPT ![userId].balance = @ + amount + bonusAmount,
                          ![userId].totalDeposits = @ + amount],
          transactions |->
            Append(Append(transactions,
                          TransactionRow(userId, "DEPOSIT", amount, txHash,
                                         DepositDescription(network))),
                   TransactionRow(userId, "DEPOSIT_BONUS", bonusAmount, NoTx,
                                  DepositBonusDescription)) ]

ConfirmDepositCommit ==
    /\ op.pc = "confirmCommit"
    /\ LET c == ManualCommit(op.depositId, op.txHash, op.userId, op.amount,
                             op.network)
       IN  /\ deposits' = c.deposits
           /\ users' = c.users
           /\ transactions' = c.transactions
    /\ Goto_op(IF op.walletId # 0 THEN "confirmMark" ELSE "confirmReferral")
    /\ UNCHANGED <<wallets, now, wh, ga, rp>>

ConfirmDepositMark ==
    /\ op.pc = "confirmMark"
    /\ wallets' = markWalletUsed(op.walletId)
    /\ Goto_op("confirmReferral")
    /\ UNCHANGED <<users, deposits, transactions, now, wh, ga, rp>>

\* the two operations of DepositsService.processReferralBonus's transaction
ManualReferralCommit(referrerId, username, depositAmount) ==
    LET bonusAmount == (depositAmount * REFERRAL_BONUS_PERCENT) \div 100
    IN  [ users |->
            [users EXCEPT ![referrerId].balance = @ + bonusAmount,
                          ![referrerId].totalTeamEarnings = @ + bonusAmount],
          transactions |->
            Append(transactions,
                   TransactionRow(referrerId, "REFERRAL_BONUS", bonusAmount, NoTx,
                                  <<"7", "% ", "referral bonus ", "from ">>
                                      \o username)) ]

\* DepositsService.processReferralBonus: no one-time check on this path
ConfirmDepositReferral ==
    /\ op.pc = "confirmReferral"
    /\ LET referrerId == users[op.userId].referredBy
           c == ManualReferralCommit(referrerId, users[op.userId].username,
                                     op.amount)
       IN  IF referrerId = NoUser
           THEN UNCHANGED <<users, transactions>>
           ELSE /\ users' = c.users
                /\ transactions' = c.transactions
    /\ Goto_op("confirmEmail")
    /\ UNCHANGED <<wallets, deposits, now, wh, ga, rp>>

\* the confirmation email, not caught on this path
ConfirmDepositEmail ==
    /\ op.pc = "confirmEmail"
    /\ \E sent \in BOOLEAN : ReturnOp(IF sent THEN "ok" ELSE "error")
    /\ UNCHANGED <<db, now, wh, ga, rp>>

----------------------------------------------------------------------------
(* WalletPoolService.transferToMaster and getWalletBalance                 *)

\* no master address is configured
NoMaster == <<"none", 0>>

\* BSC_MASTER_ADDRESS or TRON_MASTER_ADDRESS, by the network of the wallet;
\* masters are the networks the configuration has a master address for
MasterAddressOf(masters, network) ==
    IF network \in masters THEN <<"master", network>> ELSE NoMaster

\* what the Chain Service answers to the balance query: a balance, or "fail"
ChainBalances == { "fail", "0", "100" }

\* getWalletBalance: the token balance of a BEP20 address; '0' when the
\* query fails, and '0' for every TRC20 address
getWalletBalance(network, chainBalance) ==
    IF network = "BEP20" /\ chainBalance # "fail"
    THEN [ usdtBalance |-> chainBalance, failed |-> FALSE ]
    ELSE [ usdtBalance |-> "0", failed |-> network = "BEP20" ]

\* a faulty balance test that lets an empty wallet through
NegativeBalance(usdtAmount) == usdtAmount < 0

\* usdtAmount <= 0
NoBalance(usdtAmount) == usdtAmount <= 0

\* the call returns or throws; amount is the balance that was read and
\* txHash the transaction of the send, if funds were sent
SweepReturn(status, txId) ==
    op' = [OpIdle EXCEPT !.kind = op.kind, !.walletId = op.walletId,
                         !.network = op.network, !.address = op.address,
                         !.amount = op.amount, !.txHash = txId,
                         !.caller = op.caller, !.result = status]

\* POST /admin/wallets/:id/transfer-to-master with the admin secret
TransferToMaster(walletId, sequential) ==
    /\ op.pc = "idle"
    /\ sequential => AllIdle
    /\ op' = [OpIdle EXCEPT !.kind = "transferToMaster", !.pc = "sweepFind",
                            !.walletId = walletId, !.address = NoMaster,
                            !.caller = "admin"]
    /\ wh' = Handled(sequential)
    /\ ga' = Called(sequential)
    /\ UNCHANGED <<db, now, rp>>

\* findUnique({ id }), then the master address of the wallet's network
SweepFind ==
    /\ op.pc = "sweepFind"
    /\ IF op.walletId \notin Indices(wallets)
       THEN SweepReturn("Wallet not found", NoTx)
       ELSE \E masters \in SUBSET Networks :
              LET network == wallets[op.walletId].network
                  masterAddress == MasterAddressOf(masters, network)
              IN  IF masterAddress = NoMaster
                  THEN SweepReturn("Master address not configured", NoTx)
                  ELSE op' = [op EXCEPT !.pc = "sweepBalance",
                                        !.network = network,
                                        !.address = masterAddress]
    /\ UNCHANGED <<db, now, wh, ga, rp>>

\* getWalletBalance and the test of the balance
SweepBalance ==
    /\ op.pc = "sweepBalance"
    /\ \E chainBalance \in ChainBalances :
         LET balance == getWalletBalance(op.network, chainBalance)
             usdtAmount == parseFloat(balance.usdtBalance).v
         IN  IF NoBalance(usdtAmount)
             THEN SweepReturn("No USDT balance to transfer", NoTx)
             ELSE op' = [op EXCEPT !.pc = "sweepSend", !.amount = usdtAmount]
    /\ UNCHANGED <<db, now, wh, ga, rp>>

\* tatumService.sendUsdt for a BEP20 wallet; the Chain Service may refuse
SweepSend ==
    /\ op.pc = "sweepSend"
    /\ IF op.network = "BEP20"
       THEN \E sent \in BOOLEAN :
              IF sent THEN SweepReturn("ok", "sweep")
              ELSE SweepReturn("Failed to send USDT", NoTx)
       ELSE SweepReturn("TRC20 transfer not implemented", NoTx)
    /\ UNCHANGED <<db, now, wh, ga, rp>>

SweepStep ==
    \/ SweepFind
    \/ SweepBalance
    \/ SweepSend

OpStep ==
    \/ CreateDepositFind
    \/ CreateDepositWrite
    \/ ConfirmDepositFind
    \/ ConfirmDepositCommit
    \/ ConfirmDepositMark
    \/ ConfirmDepositReferral
    \/ ConfirmDepositEmail

----------------------------------------------------------------------------
(* Initial states *)

UserRow(username, referredBy) ==
    [ username |-> username, referredBy |-> referredBy, balance |-> 0,
      totalDeposits |-> 0, totalTeamEarnings |-> 0 ]

\* user names accepted by RegisterDto (any string of three characters or more)
PlainNames == { <<"alice">> }
AnyNames == { <<"alice">>, <<"x", "% ", "deposit bonus">> }

\* four registered accounts: u1 was referred by u2, u2 by u3
Accounts(name1) ==
    [ u \in UserIds |->
        CASE u = "u1" -> UserRow(name1, "u2")
          [] u = "u2" -> UserRow(<<"bob">>, "u3")
          [] u = "u3" -> UserRow(<<"carol">>, NoUser)
          [] OTHER -> UserRow(<<"dave">>, NoUser) ]

Quiet ==
    /\ wh = [h \in Handlers |-> HandlerIdle]
    /\ ga = [c \in Callers |-> CallerIdle]
    /\ rp = ReaperIdle
    /\ op = OpIdle

\* the service after start-up: accounts exist, the pool and the ledger are empty
InitNamed(names) ==
    /\ \E name1 \in names : users = Accounts(name1)
    /\ wallets = <<>>
    /\ deposits = <<>>
    /\ transactions = <<>>
    /\ now = 0
    /\ Quiet

Init == InitNamed(PlainNames)

\* a pool in use: three wallets were derived and leased at time 0, the cron
\* job released them at time 2, and u1 and u2 hold new leases until time 3;
\* webhookId is the watch subscription of the free wallet (NULL: it failed)
LeasedWallet(index, userId) ==
    [ WalletRow(DeriveAddress("BEP20", index), "BEP20", index, index + 1) EXCEPT
        !.assignedToUserId = userId, !.assignedAt = 2, !.expiresAt = 3,
        !.isAvailable = FALSE, !.lastUsedAt = 2 ]

PoolInUse(webhookId) ==
    << LeasedWallet(0, "u1"), LeasedWallet(1, "u2"),
       [ WalletRow(DeriveAddress("BEP20", 2), "BEP20", 2, webhookId) EXCEPT
           !.lastUsedAt = 2 ] >>

InitInUse(names, webhookIds) ==
    /\ \E name1 \in names : users = Accounts(name1)
    /\ \E webhookId \in webhookIds : wallets = PoolInUse(webhookId)
    /\ deposits = <<>>
    /\ transactions = <<>>
    /\ now = 2
    /\ Quiet

----------------------------------------------------------------------------
(* Specifications *)

UnknownAddress == <<"BEP20", 99>>
Amounts == { "100", "0", "abc" }
Assets == { <<"USDT">>, <<"USDC">> }

\* concurrent webhook deliveries against a pool in use
NextIngest ==
    \E h \in Handlers :
        \/ \E a \in { DeriveAddress("BEP20", 0), DeriveAddress("BEP20", 2) },
              t \in TxIds, m \in { "100" }, s \in Assets :
             Deliver(h, a, t, m, s, FALSE)
        \/ HandlerStep(h)
        \/ WrongCurrencyStep(h)

SpecIngest == InitInUse(PlainNames, {3}) /\ [][NextIngest]_vars

\* webhook deliveries handled one after another
NextIngestSeq ==
    \/ \E a \in { DeriveAddress("BEP20", 0), DeriveAddress("BEP20", 1),
                  DeriveAddress("BEP20", 2), UnknownAddress },
          t \in { "t1", "t2", "t3" }, m \in Amounts, s \in Assets :
         Deliver("h1", a, t, m, s, TRUE)
    \/ HandlerStep("h1")
    \/ WrongCurrencyStep("h1")

SpecIngestSeq == InitInUse(AnyNames, {3}) /\ [][NextIngestSeq]_vars

\* concurrent requests for a deposit address by the two users without a lease
NextPool ==
    \E c \in Callers :
        \/ \E u \in { "u3", "u4" } : GetOrAssignWallet(c, u, "BEP20", FALSE)
        \/ CallerStep(c, BOOLEAN)
        \/ EnsureWebhookStep(c)

SpecPool == InitInUse(PlainNames, {NULL, 3}) /\ [][NextPool]_vars

\* the life of one user's leases: requests, the cron job and the clock, one
\* request or job at a time
NextService ==
    \/ GetOrAssignWallet("c1", "u1", "BEP20", TRUE)
    \/ CallerStep("c1", {TRUE})
    \/ CreateDeposit("u1", 100, "BEP20", TRUE)
    \/ \E d \in 1..2, t \in { "t1" } : ConfirmDeposit(d, t, TRUE)
    \/ OpStep
    \/ \E a \in { DeriveAddress("BEP20", 0), DeriveAddress("BEP20", 1) },
          t \in TxIds :
         Deliver("h1", a, t, "100", <<"USDT">>, TRUE)
    \/ HandlerStep("h1")
    \/ ReaperScan(TRUE)
    \/ ReaperStep
    \/ Tick(TRUE)

SpecService == Init /\ [][NextService]_vars

\* the cron job racing with requests for an address, with releaseWallet, and
\* with an overlapping run of itself
NextReap ==
    \/ GetOrAssignWallet("c1", "u1", "BEP20", FALSE)
    \/ CallerStep("c1", {TRUE})
    \/ ReaperScan(FALSE)
    \/ ReaperStep
    \/ ReaperOverlap
    \/ \E w \in Indices(wallets) : ReleaseWallet(w, FALSE)
    \/ Tick(FALSE)

SpecReap == Init /\ [][NextReap]_vars

\* every writer of the pool at once: address requests, the manual release,
\* the cron job with an overlapping run, and a webhook delivery
NextShape ==
    \/ GetOrAssignWallet("c1", "u1", "BEP20", FALSE)
    \/ CallerStep("c1", {TRUE})
    \/ ReaperScan(FALSE)
    \/ ReaperStep
    \/ ReaperOverlap
    \/ \E w \in Indices(wallets) : ReleaseWallet(w, FALSE)
    \/ Deliver("h1", DeriveAddress("BEP20", 0), "t1", "100", <<"USDT">>, FALSE)
    \/ HandlerStep("h1")
    \/ Tick(FALSE)

SpecShape == Init /\ [][NextShape]_vars

\* deposit requests of both sizes on both networks, racing with the lease of
\* an address, the clock and the cron job
NextIntent ==
    \/ GetOrAssignWallet("c1", "u1", "BEP20", FALSE)
    \/ CallerStep("c1", {TRUE})
    \/ \E amount \in { 50, 100 }, n \in Networks :
          CreateDeposit("u1", amount, n, FALSE)
    \/ CreateDepositFind
    \/ CreateDepositWrite
    \/ ReaperScan(FALSE)
    \/ ReaperStep
    \/ Tick(FALSE)

SpecIntent == Init /\ [][NextIntent]_vars

\* concurrent requests for an address with valid and invalid network names
QueryNetworks == {"BEP20", "TRC20", "ERC20", "bep20"}

NextAddress ==
    \/ \E n \in QueryNetworks : GetDepositAddress("c1", "u1", n, FALSE)
    \/ \E n \in QueryNetworks : GetDepositAddress("c2", "u2", n, FALSE)
    \/ \E c \in Callers : CallerStep(c, {TRUE})

SpecAddress == Init /\ [][NextAddress]_vars

\* the webhook endpoint with every kind of notification and signature, one
\* delivery at a time
NextEndpoint ==
    \/ \E a \in { DeriveAddress("BEP20", 0), DeriveAddress("BEP20", 2),
                  UnknownAddress },
          m \in { "100", "abc" }, s \in Assets, secretSet \in BOOLEAN,
          signed \in { "none", "good", "forged" } :
         LET payload == <<a, "t1", m, s>>
             hash == CASE signed = "none" -> NoHash
                       [] signed = "good" -> Hmac(payload)
                       [] OTHER -> Hmac(<<a, "t2", m, s>>)
         IN  DeliverSigned("h1", a, "t1", m, s, hash, secretSet, TRUE)
    \/ HandlerStep("h1")
    \/ WrongCurrencyStep("h1")

SpecEndpoint == InitInUse(PlainNames, {3}) /\ [][NextEndpoint]_vars

\* one notification, with any signature, delivered to the pool in use
NextSignature ==
    \/ \E a \in { DeriveAddress("BEP20", 0), DeriveAddress("BEP20", 2),
                  UnknownAddress },
          t \in TxIds, m \in { "100", "abc" }, s \in Assets,
          secretSet \in BOOLEAN, signed \in { "none", "good", "forged" } :
         LET payload == <<a, t, m, s>>
             hash == CASE signed = "none" -> NoHash
                       [] signed = "good" -> Hmac(payload)
                       [] OTHER -> Hmac(<<a, "t3", m, s>>)
         IN  /\ wh["h1"].result = "none"
             /\ DeliverSigned("h1", a, t, m, s, hash, secretSet, FALSE)
    \/ HandlerStep("h1")
    \/ WrongCurrencyStep("h1")

SpecSignature == InitInUse(PlainNames, {3}) /\ [][NextSignature]_vars

\* at time 2 the pool holds one wallet, leased to u1 from time 0 to time 1
\* and not yet released
InitExpiredLease ==
    /\ users = Accounts(<<"alice">>)
    /\ wallets = << [ WalletRow(DeriveAddress("BEP20", 0), "BEP20", 0, 1) EXCEPT
                        !.assignedToUserId = "u1", !.assignedAt = 0,
                        !.expiresAt = 1, !.isAvailable = FALSE ] >>
    /\ deposits = <<>>
    /\ transactions = <<>>
    /\ now = 2
    /\ Quiet

\* a notification for the wallet, racing with the cron job and with a
\* request of u2 for an address
NextHolder ==
    \/ \E t \in TxIds :
          Deliver("h1", DeriveAddress("BEP20", 0), t, "100", <<"USDT">>, FALSE)
    \/ HandlerStep("h1")
    \/ ReaperScan(FALSE)
    \/ ReaperStep
    \/ GetOrAssignWallet("c2", "u2", "BEP20", FALSE)
    \/ CallerStep("c2", {TRUE})

SpecHolder == InitExpiredLease /\ [][NextHolder]_vars

\* the controllers that confirm and cancel deposits, one request at a time:
\* u1 declares deposits, signed-in users and callers of the admin routes
\* confirm and cancel them
NextAdmin ==
    \/ GetOrAssignWallet("c1", "u1", "BEP20", TRUE)
    \/ CallerStep("c1", {TRUE})
    \/ CreateDeposit("u1", 100, "BEP20", TRUE)
    \/ \E u \in { "u1", "u3" }, d \in 1..MaxDeposits :
          UserConfirmDeposit(u, d, "t1", TRUE)
    \/ \E s \in { ADMIN_SECRET, "guess" }, d \in 1..MaxDeposits :
          AdminConfirmDeposit(s, d, "t1", TRUE)
    \/ \E s \in { ADMIN_SECRET, "guess" }, d \in 1..MaxDeposits :
          CancelDeposit(s, d, TRUE)
    \/ OpStep

SpecAdmin == Init /\ [][NextAdmin]_vars

\* deposits of two sizes to the wallets of the pool, one delivery at a time
NextCredit ==
    \/ \E a \in { DeriveAddress("BEP20", 0), DeriveAddress("BEP20", 1),
                  DeriveAddress("BEP20", 2) },
          t \in TxIds, m \in { "100", "1000" } :
         Deliver("h1", a, t, m, <<"USDT">>, TRUE)
    \/ HandlerStep("h1")

SpecCredit == InitInUse(PlainNames, {3}) /\ [][NextCredit]_vars

\* concurrent requests on both networks against an empty pool, under any key
\* configuration
NextDerive ==
    \/ \E n \in Networks : GetOrAssignWallet("c1", "u1", n, FALSE)
    \/ \E n \in Networks : GetOrAssignWallet("c2", "u2", n, FALSE)
    \/ \E c \in Callers : CallerStepAnyKeys(c)

SpecDerive == Init /\ [][NextDerive]_vars

\* two users lease addresses, one request at a time, while the clock and
\* the cron job run at any moment of a request; the cron job is started by
\* the scheduler again and again and its storage calls complete
NextExpiry ==
    \/ GetOrAssignWallet("c1", "u1", "BEP20", TRUE)
    \/ GetOrAssignWallet("c2", "u2", "BEP20", TRUE)
    \/ \E c \in Callers : CallerStep(c, {TRUE})
    \/ ReaperScan(FALSE)
    \/ ReaperStep
    \/ Tick(FALSE)

SpecExpiry ==
    /\ Init
    /\ [][NextExpiry]_vars
    /\ WF_vars(ReaperScan(FALSE))
    /\ WF_vars(ReaperStep)

\* address requests of two users, one request at a time, with watch
\* subscriptions that may fail, the clock and the cron job
NextLease ==
    \/ GetOrAssignWallet("c1", "u1", "BEP20", TRUE)
    \/ GetOrAssignWallet("c2", "u2", "BEP20", TRUE)
    \/ \E c \in Callers : CallerStep(c, BOOLEAN)
    \/ \E c \in Callers : EnsureWebhookStep(c)
    \/ ReaperScan(TRUE)
    \/ ReaperStep
    \/ Tick(TRUE)

SpecLease == Init /\ [][NextLease]_vars

\* a wallet of the pool that was released at the given time
ReleasedWallet(network, index, id, at) ==
    [ WalletRow(DeriveAddress(network, index), network, index, id) EXCEPT
        !.lastUsedAt = at ]

\* at time 2 the pool holds a BEP20 wallet and a TRC20 wallet released at
\* time 0, and a BEP20 wallet that the request of u2 has just derived and
\* not yet leased
InitPoolReleased ==
    /\ users = Accounts(<<"alice">>)
    /\ wallets = << ReleasedWallet("BEP20", 0, 1, 0),
                    ReleasedWallet("TRC20", 0, 2, 0),
                    WalletRow(DeriveAddress("BEP20", 1), "BEP20", 1, 3) >>
    /\ deposits = <<>>
    /\ transactions = <<>>
    /\ now = 2
    /\ wh = [h \in Handlers |-> HandlerIdle]
    /\ ga = [c \in Callers |->
               IF c = "c2"
               THEN [CallerIdle EXCEPT
                       !.pc = "assign", !.userId = "u2", !.network = "BEP20",
                       !.assignedAt = 2,
                       !.expiresAt = 2 + WALLET_ASSIGNMENT_DURATION,
                       !.walletId = 3, !.nextIndex = 1, !.isNew = TRUE,
                       !.address = DeriveAddress("BEP20", 1),
                       !.privateKey = PrivateKeyOf(DeriveAddress("BEP20", 1))]
               ELSE CallerIdle]
    /\ rp = ReaperIdle
    /\ op = OpIdle

\* overlapping address requests on both networks against that pool, with
\* wallets released by hand
NextSelect ==
    \/ \E n \in Networks : GetOrAssignWallet("c1", "u1", n, FALSE)
    \/ GetOrAssignWallet("c1", "u3", "BEP20", FALSE)
    \/ GetOrAssignWallet("c2", "u2", "BEP20", FALSE)
    \/ \E c \in Callers : CallerStep(c, {TRUE})
    \/ \E w \in { 1, 3 } : ReleaseWallet(w, FALSE)

SpecSelect == InitPoolReleased /\ [][NextSelect]_vars

\* asset labels of notifications: the symbol, identifiers of the TRON token,
\* labels that contain the symbol, and another token
AssetLabels ==
    { <<"USDT">>, <<"BEP20_", "USDT">>, <<"USDT", "_TRON">>,
      <<"TR7NHqjeKQxGTCi8q8ZY4pL8otSzgjLj6t">>, <<"W", "USDT">>,
      <<"USDT", "X">>, <<"USDC">> }

\* notifications with any of these labels for the BEP20 wallets of the pool
\* in use, one delivery at a time
NextAsset ==
    \/ \E a \in { DeriveAddress("BEP20", 0), DeriveAddress("BEP20", 2) },
          t \in TxIds, s \in AssetLabels :
         Deliver("h1", a, t, "100", s, TRUE)
    \/ HandlerStep("h1")
    \/ WrongCurrencyStep("h1")

SpecAsset == InitInUse(PlainNames, {3}) /\ [][NextAsset]_vars

\* a pool at time 2 with a wallet leased to u1, who was referred by u2, a
\* wallet leased to u4, who was referred by nobody, and a free wallet
InitReferral ==
    /\ users = Accounts(<<"alice">>)
    /\ wallets = << LeasedWallet(0, "u1"), LeasedWallet(1, "u4"),
                    ReleasedWallet("BEP20", 2, 3, 2) >>
    /\ deposits = <<>>
    /\ transactions = <<>>
    /\ now = 2
    /\ Quiet

\* deposits to the three wallets, one delivery at a time
NextReferral ==
    \/ \E a \in { DeriveAddress("BEP20", 0), DeriveAddress("BEP20", 1),
                  DeriveAddress("BEP20", 2) },
          t \in TxIds, m \in { "100", "1000" } :
         Deliver("h1", a, t, m, <<"USDT">>, TRUE)
    \/ HandlerStep("h1")

SpecReferral == InitReferral /\ [][NextReferral]_vars

\* notifications with valid and invalid amounts for a leased wallet, a free
\* wallet and an address outside the pool, one delivery at a time
AnyAmounts == { "100", "0", "-100", "abc", "100abc" }

NextDiscard ==
    \/ \E a \in { DeriveAddress("BEP20", 0), DeriveAddress("BEP20", 2),
                  UnknownAddress },
          t \in TxIds, m \in AnyAmounts, s \in Assets :
         Deliver("h1", a, t, m, s, TRUE)
    \/ HandlerStep("h1")
    \/ WrongCurrencyStep("h1")

SpecDiscard == InitInUse(PlainNames, {3}) /\ [][NextDiscard]_vars

\* deposits to the wallets of the pool in use, one delivery at a time, with
\* a Notifier that may fail
NextNotify ==
    \/ \E a \in { DeriveAddress("BEP20", 0), DeriveAddress("BEP20", 1),
                  DeriveAddress("BEP20", 2) },
          t \in TxIds :
         Deliver("h1", a, t, "100", <<"USDT">>, TRUE)
    \/ HandlerStep("h1")
    \/ ConfirmationEmailFails("h1")
    \/ ConfirmationEmailCaught("h1")

SpecNotify == InitInUse(PlainNames, {3}) /\ [][NextNotify]_vars

\* the Chain Service delivers again the notification of a stored deposit
Redeliver(h) ==
    /\ AllIdle
    /\ \E i \in Indices(deposits) :
          /\ deposits[i].txHash # NoTx
          /\ wh' = [Handled(TRUE) EXCEPT ![h] = [HandlerIdle EXCEPT
                      !.pc = "dup", !.address = deposits[i].depositAddress,
                      !.txId = deposits[i].txHash, !.amount = "100",
                      !.asset = <<"USDT">>]]
    /\ ga' = Called(TRUE)
    /\ op' = Served(TRUE)
    /\ UNCHANGED <<db, now, rp>>

\* deposits to the pool in use, one delivery at a time, where the storage
\* calls after the commit may fail; every delivery is handled to its end and
\* the notification of a stored deposit is delivered again and again
NextRetry ==
    \/ \E a \in { DeriveAddress("BEP20", 0), DeriveAddress("BEP20", 2) },
          t \in TxIds :
         Deliver("h1", a, t, "100", <<"USDT">>, TRUE)
    \/ Redeliver("h1")
    \/ HandlerStep("h1")
    \/ MarkUsedFails("h1")
    \/ ReferralWriteFails("h1")

SpecRetry ==
    /\ InitInUse(PlainNames, {3})
    /\ [][NextRetry]_vars
    /\ WF_vars(HandlerStep("h1"))
    /\ WF_vars(Redeliver("h1"))

\* sweeps of the wallets of the pool, and of a wallet that does not exist,
\* while u1 leases addresses on both networks
NextSweep ==
    \/ \E n \in Networks : GetOrAssignWallet("c1", "u1", n, FALSE)
    \/ CallerStep("c1", {TRUE})
    \/ \E w \in 1..MaxWallets : TransferToMaster(w, FALSE)
    \/ SweepStep

SpecSweep == Init /\ [][NextSweep]_vars

----------------------------------------------------------------------------
(* Helpers of the properties *)

RECURSIVE SumAmount(_)
SumAmount(rows) ==
    IF rows = <<>> THEN 0 ELSE Head(rows).amount + SumAmount(Tail(rows))

RECURSIVE SumBonus(_)
SumBonus(rows) ==
    IF rows = <<>> THEN 0 ELSE Head(rows).bonusAmount + SumBonus(Tail(rows))

AllTxIds == { "t1", "t2", "t3" }

ConfirmedWithTx(t) ==
    { i \in Indices(deposits) :
        deposits[i].txHash = t /\ deposits[i].status = "CONFIRMED" }

DepositRecordsOf(t) ==
    { i \in Indices(transactions) :
        transactions[i].type = "DEPOSIT" /\ transactions[i].reference = t }

ConfirmedOf(u) ==
    SelectSeq(deposits, LAMBDA d : d.userId = u /\ d.status = "CONFIRMED")

RecordsOf(u) == SelectSeq(transactions, LAMBDA r : r.userId = u)

OwnBonusRecordsOf(u) ==
    SelectSeq(transactions,
              LAMBDA r : /\ r.userId = u
                         /\ r.type = "DEPOSIT_BONUS"
                         /\ r.description = DepositBonusDescription)

CommissionRecords(referrerId, username) ==
    SelectSeq(transactions,
              LAMBDA r : /\ r.userId = referrerId
                         /\ r.type = "DEPOSIT_BONUS"
                         /\ r.description = ReferralBonusDescription(username))

Finished(h, lines) == wh[h].pc = "idle" /\ wh[h].logged \in lines

----------------------------------------------------------------------------
(* C1 *)

\* C1: when two deliveries of the same valid notification have both been
\* handled, whatever the interleaving of their steps, there is exactly one
\* CONFIRMED deposit with that txId, one DEPOSIT record that references it,
\* and the owner was credited for it once.
C1_ConcurrentDeliveriesCreditOnce ==
    \A h1, h2 \in Handlers :
        ( /\ h1 # h2
          /\ Finished(h1, {"deposit confirmed"})
          /\ Finished(h2, {"deposit confirmed", "already processed"})
          /\ wh[h1].txId = wh[h2].txId
          /\ wh[h1].address = wh[h2].address
          /\ wh[h1].amount = wh[h2].amount
          /\ wh[h1].asset = wh[h2].asset )
        => /\ Cardinality(ConfirmedWithTx(wh[h1].txId)) = 1
           /\ Cardinality(DepositRecordsOf(wh[h1].txId)) = 1
           /\ \A i \in ConfirmedWithTx(wh[h1].txId) :
                users[deposits[i].userId].totalDeposits
                    <= parseFloat(wh[h1].amount).v
                       * Cardinality({ t \in AllTxIds : ConfirmedWithTx(t) # {} })

----------------------------------------------------------------------------
(* C2 *)

\* C2: a delivery whose txId is already the txHash of a deposit, in any
\* status, ends at the duplicate lookup: the handler returns ok and no user,
\* wallet, deposit or transaction row changes.
C2_RedeliveryIsNoOp ==
    [][ \A h \in Handlers :
          ( /\ wh[h].pc = "dup"
            /\ \E i \in Indices(deposits) : deposits[i].txHash = wh[h].txId
            /\ wh'[h] # wh[h] )
          => /\ db' = db
             /\ wh'[h].pc = "idle"
             /\ wh'[h].result = "ok" ]_vars

\* a re-delivery of a wrong-asset notification and one of a credited
\* notification were both skipped
C2_Witness ==
    /\ \E h \in Handlers, i \in Indices(deposits) :
         /\ Finished(h, {"already processed"})
         /\ deposits[i].txHash = wh[h].txId
         /\ deposits[i].status = "FAILED"
    /\ \E h \in Handlers, i \in Indices(deposits) :
         /\ Finished(h, {"already processed"})
         /\ deposits[i].txHash = wh[h].txId
         /\ deposits[i].status = "CONFIRMED"

----------------------------------------------------------------------------
(* C3 *)

\* C3: in every state, no two deposits carry the same non-null txHash,
\* whether webhook deliveries or confirmDeposit calls wrote them.
C3_TxHashUnique ==
    \A i, j \in Indices(deposits) :
        (i # j /\ deposits[i].txHash # NoTx)
            => deposits[i].txHash # deposits[j].txHash

----------------------------------------------------------------------------
(* C4 *)

LeasesOf(userId, network) ==
    { i \in Indices(wallets) :
        /\ wallets[i].assignedToUserId = userId
        /\ wallets[i].network = network
        /\ ~wallets[i].isAvailable }

Returned(c) == ga[c].pc = "idle" /\ ga[c].result # "none"

\* C4: when two getOrAssignWallet calls of one user for one network have
\* both returned, whatever the interleaving of their reads and writes, both
\* returned the same address and the same expiresAt, and exactly one wallet
\* is leased to that user.
C4_ConcurrentCallsShareOneLease ==
    \A c1, c2 \in Callers :
        ( /\ c1 # c2
          /\ Returned(c1) /\ Returned(c2)
          /\ ga[c1].userId = ga[c2].userId
          /\ ga[c1].network = ga[c2].network )
        => /\ ga[c1].result = "ok" /\ ga[c2].result = "ok"
           /\ ga[c1].address = ga[c2].address
           /\ ga[c1].expiresAt = ga[c2].expiresAt
           /\ Cardinality(LeasesOf(ga[c1].userId, ga[c1].network)) = 1

----------------------------------------------------------------------------
(* C5 *)

\* C5: when two getOrAssignWallet calls of two different users for one
\* network have both returned an address, the two addresses differ and each
\* address is that of a wallet whose stored lease holder is the caller.
C5_WalletNeverHandedToTwoUsers ==
    \A c1, c2 \in Callers :
        ( /\ c1 # c2
          /\ Returned(c1) /\ ga[c1].result = "ok"
          /\ Returned(c2) /\ ga[c2].result = "ok"
          /\ ga[c1].userId # ga[c2].userId
          /\ ga[c1].network = ga[c2].network )
        => /\ ga[c1].address # ga[c2].address
           /\ \A c \in {c1, c2} :
                \E i \in LeasesOf(ga[c].userId, ga[c].network) :
                    wallets[i].address = ga[c].address

----------------------------------------------------------------------------
(* C6 *)

\* C6: in every state, for each user and network at most one wallet has that
\* user as lease holder with isAvailable false, also after the user asked
\* again once the lease expired and before the cron job released it.
C6_OneLeasedWalletPerUser ==
    \A u \in UserIds, n \in Networks : Cardinality(LeasesOf(u, n)) <= 1

----------------------------------------------------------------------------
(* C7 *)

\* C7: in every state the ledger shows whole commits only: per txId as many
\* CONFIRMED deposits as DEPOSIT records, every balance is the sum of the
\* user's records, lifetime deposits are the sum of the user's DEPOSIT
\* records and of the CONFIRMED deposits, and the bonus records match the
\* deposits that carry a bonus, one for one and in amount.
C7_LedgerEffectAtomic ==
    /\ \A t \in AllTxIds :
         Cardinality(ConfirmedWithTx(t)) = Cardinality(DepositRecordsOf(t))
    /\ \A u \in UserIds :
         /\ users[u].balance = SumAmount(RecordsOf(u))
         /\ users[u].totalDeposits
              = SumAmount(SelectSeq(RecordsOf(u), LAMBDA r : r.type = "DEPOSIT"))
         /\ users[u].totalDeposits = SumAmount(ConfirmedOf(u))
         /\ SumBonus(ConfirmedOf(u)) = SumAmount(OwnBonusRecordsOf(u))
         /\ Len(SelectSeq(ConfirmedOf(u), LAMBDA d : d.bonusAmount > 0))
              = Len(OwnBonusRecordsOf(u))

\* a deposit with a bonus and one without were committed, and a commit failed
C7_Witness ==
    /\ \E i, j \in Indices(deposits) :
         /\ deposits[i].status = "CONFIRMED" /\ deposits[i].bonusAmount > 0
         /\ deposits[j].status = "CONFIRMED" /\ deposits[j].bonusAmount = 0
    /\ \E h \in Handlers :
         /\ wh[h].pc = "idle"
         /\ wh[h].result = "error"
         /\ wh[h].address = DeriveAddress("BEP20", 0)

----------------------------------------------------------------------------
(* C8 *)

\* C8: of the webhook-confirmed deposits of a user, handled one after
\* another, the first carries a bonus and has a bonus record, and every later
\* one has bonus 0.
C8_FirstDepositOnlyHasBonus ==
    \A i \in Indices(deposits) :
        deposits[i].status = "CONFIRMED" =>
            IF \E j \in 1..(i - 1) : /\ deposits[j].status = "CONFIRMED"
                                     /\ deposits[j].userId = deposits[i].userId
            THEN deposits[i].bonusAmount = 0
            ELSE /\ deposits[i].bonusAmount > 0
                 /\ Len(OwnBonusRecordsOf(deposits[i].userId)) = 1

----------------------------------------------------------------------------
(* C9 *)

\* C9: however many deposits of a referred depositor are confirmed by
\* webhook, the referrer holds at most one commission record for that
\* depositor, and the referrer's balance is exactly the sum of the
\* referrer's records, so it grew by at most one commission.
C9_ReferralCommissionAtMostOnce ==
    \A u \in UserIds :
        users[u].referredBy # NoUser =>
            /\ Len(CommissionRecords(users[u].referredBy, users[u].username)) <= 1
            /\ users[users[u].referredBy].balance
                 = SumAmount(RecordsOf(users[u].referredBy))

----------------------------------------------------------------------------
(* C10 *)

\* C10: a run of the cron job picks every leased wallet whose expiresAt is
\* before now; when it ends each of them is available with holder, lease
\* start and expiry cleared, and no deposit on its address is still PENDING
\* with an expiry before now; no step of the run changes a CONFIRMED
\* deposit.
C10_ReaperReleasesExpiredLeases ==
    [][ /\ (rp.pc = "idle" /\ rp'.pc # "idle")
            => /\ rp'.now = now
               /\ rp'.expired =
                    { i \in Indices(wallets) :
                        /\ ~wallets[i].isAvailable
                        /\ wallets[i].expiresAt # NULL
                        /\ wallets[i].expiresAt < now }
        /\ (rp.pc # "idle")
            => /\ Len(deposits') = Len(deposits)
               /\ \A i \in Indices(deposits) :
                    deposits[i].status = "CONFIRMED"
                        => deposits'[i] = deposits[i]
        /\ (rp.pc # "idle" /\ rp'.pc = "idle")
            => \A w \in rp.expired :
                 /\ wallets'[w].isAvailable
                 /\ wallets'[w].assignedToUserId = NoUser
                 /\ wallets'[w].assignedAt = NULL
                 /\ wallets'[w].expiresAt = NULL
                 /\ \A i \in Indices(deposits') :
                      ( /\ deposits'[i].depositAddress = wallets[w].address
                        /\ deposits'[i].expiresAt # NULL
                        /\ deposits'[i].expiresAt < rp.now )
                      => deposits'[i].status # "PENDING" ]_vars

\* the job released a wallet on whose address one deposit was cancelled and
\* a confirmed one was kept
C10_Witness ==
    /\ rp.pc = "idle"
    /\ \E w \in Indices(wallets), i, j \in Indices(deposits) :
         /\ wallets[w].isAvailable
         /\ wallets[w].assignedToUserId = NoUser
         /\ deposits[i].depositAddress = wallets[w].address
         /\ deposits[i].status = "CANCELLED"
         /\ deposits[j].depositAddress = wallets[w].address
         /\ deposits[j].status = "CONFIRMED"

----------------------------------------------------------------------------
(* C11 *)

\* C11: the batch release of a cron run leaves alone every scanned wallet
\* that, at the moment of the write, is leased with an expiry that is not
\* before now: its holder and its expiry survive the run.
C11_ReaperKeepsNewLease ==
    [][ (rp.pc = "release" /\ rp'.pc = "idle")
          => \A w \in rp.expired :
               ( /\ ~wallets[w].isAvailable
                 /\ wallets[w].expiresAt # NULL
                 /\ wallets[w].expiresAt >= now )
               => /\ wallets'[w].assignedToUserId = wallets[w].assignedToUserId
                  /\ wallets'[w].expiresAt = wallets[w].expiresAt
                  /\ ~wallets'[w].isAvailable ]_vars

----------------------------------------------------------------------------
(* C12 *)

\* C12: a USDC notification that reaches the wallet lookup at a wallet with
\* a lease holder takes the wrong-asset path; that path appends one FAILED
\* deposit that carries the txId and is owned by the holder, returns ok, and
\* changes no user row, no wallet and no transaction record.
C12_WrongAssetNeverCredits ==
    [][ \A h \in Handlers :
          LET w == findWalletByAddress(wh[h].address)
          IN  /\ ( /\ wh[h].pc = "wallet"
                   /\ w # 0
                   /\ wh[h].asset = <<"USDC">>
                   /\ wh'[h] # wh[h] )
                 => IF wallets[w].assignedToUserId # NoUser
                    THEN wh'[h].pc = "wrongUser" /\ db' = db
                    ELSE wh'[h].pc = "orphan" /\ db' = db
              /\ ( /\ wh[h].pc \in {"wrongUser", "wrongWrite", "wrongEmail"}
                   /\ wh'[h] # wh[h] )
                 => /\ users' = users
                    /\ wallets' = wallets
                    /\ transactions' = transactions
                    /\ wh'[h].result # "error"
                    /\ IF wh[h].pc = "wrongWrite"
                       THEN /\ Len(deposits') = Len(deposits) + 1
                            /\ SubSeq(deposits', 1, Len(deposits)) = deposits
                            /\ deposits'[Len(deposits')].status = "FAILED"
                            /\ deposits'[Len(deposits')].txHash = wh[h].txId
                            /\ deposits'[Len(deposits')].userId
                                 = wallets[w].assignedToUserId
                       ELSE deposits' = deposits ]_vars

\* a USDC notification was handled: its FAILED deposit is stored and no
\* user has a balance or a transaction record
C12_Witness ==
    \E h \in Handlers, i \in Indices(deposits) :
        /\ Finished(h, {"wrong currency"})
        /\ wh[h].asset = <<"USDC">>
        /\ deposits[i].txHash = wh[h].txId
        /\ deposits[i].status = "FAILED"
        /\ transactions = <<>>
        /\ \A u \in UserIds : users[u].balance = 0 /\ users[u].totalDeposits = 0

----------------------------------------------------------------------------
(* C13 *)

\* C13: the handling of a notification for a pool wallet without a lease
\* holder stores one PENDING deposit that carries the txId, and changes no
\* user row and no transaction record.
C13_OrphanDepositIsPersisted ==
    [][ \A h \in Handlers :
          (wh[h].pc = "orphan" /\ wh'[h] # wh[h])
            => /\ Len(deposits') = Len(deposits) + 1
               /\ deposits'[Len(deposits')].status = "PENDING"
               /\ deposits'[Len(deposits')].txHash = wh[h].txId
               /\ users' = users
               /\ transactions' = transactions ]_vars

----------------------------------------------------------------------------
(* C14 *)

\* the outcomes of a delivery, by the last line of its log
Outcomes ==
    { "already processed", "unknown address", "invalid amount",
      "orphan deposit", "failed to process", "wrong currency",
      "user not found", "deposit confirmed" }

\* C14: every delivery that was handled, with a valid or an invalid
\* signature and whatever its outcome, was answered with status 200.
C14_WebhookAlwaysAnswers200 ==
    \A h \in Handlers :
        (wh[h].pc = "idle" /\ wh[h].logged \in Outcomes)
            => HttpStatusOf(wh[h].result) = 200

\* a delivery with a forged signature hit a rejected storage write and was
\* answered
C14_Witness ==
    \E h \in Handlers :
        /\ wh[h].pc = "idle"
        /\ ~wh[h].signatureValid
        /\ wh[h].logged = "failed to process"
        /\ wh[h].result = "error"

----------------------------------------------------------------------------
(* C15 *)

\* the user has no confirmed deposit yet
NoConfirmedDepositOf(userId) == ConfirmedOf(userId) = <<>>

----------------------------------------------------------------------------
(* C16 *)

\* the address of every wallet of the pool is the address computed from its
\* decrypted private key
StoredAddressMatchesKey ==
    \A i \in Indices(wallets) :
        computeAddress(decrypt(wallets[i].privateKey, ENCRYPTION_SECRET))
            = wallets[i].address

\* C16: every wallet of the pool always has the address computed from its
\* decrypted private key, and a generateNewWallet whose address differs from
\* the address of its key throws and leaves the pool as it was, with no new
\* row and no lease.
C16_DerivationIntegrity ==
    /\ []StoredAddressMatchesKey
    /\ [][\A c \in Callers :
            (ga[c].pc = "genCreate"
               /\ computeAddress(ga[c].privateKey) # ga[c].address
               /\ ga'[c] # ga[c])
            => /\ wallets' = wallets
               /\ ga'[c].pc = "idle"
               /\ ga'[c].result = "error"]_vars

\* a wallet generated by a call is in the pool and leased, and another call
\* has failed on a mismatch
C16_Witness ==
    /\ \E i \in Indices(wallets) :
          /\ wallets[i].privateKey.salt = 2
          /\ wallets[i].assignedToUserId # NoUser
    /\ \E c \in Callers : ga[c].pc = "idle" /\ ga[c].result = "error"

----------------------------------------------------------------------------
(* C17 *)

AvailableShape(wallet) ==
    /\ wallet.isAvailable
    /\ wallet.assignedToUserId = NoUser
    /\ wallet.expiresAt = NULL

LeasedShape(wallet) ==
    /\ ~wallet.isAvailable
    /\ wallet.assignedToUserId # NoUser
    /\ wallet.expiresAt # NULL

\* C17: every wallet of the pool is either available with no holder and no
\* expiry, or unavailable with a holder and an expiry, whatever the
\* interleaving of the writers of the pool.
C17_WalletShape ==
    \A i \in Indices(wallets) :
        AvailableShape(wallets[i]) \/ LeasedShape(wallets[i])

\* a wallet was leased, received a deposit and was released, while a
\* delivery is about to count its deposit on it
C17_Witness ==
    \E i \in Indices(wallets) :
        /\ AvailableShape(wallets[i])
        /\ wallets[i].lastUsedAt # NULL
        /\ wh["h1"].pc = "mark"
        /\ wh["h1"].walletId = i

----------------------------------------------------------------------------
(* C18 *)

\* the wallets of a network
WalletsOf(network) == { i \in Indices(wallets) : wallets[i].network = network }

\* C18: no two wallets of a network ever share a derivation index, and a
\* wallet that is added to the pool has an index greater than every index
\* its network had before, also when calls derive concurrently.
C18_DerivationIndexUnique ==
    /\ [](\A i, j \in Indices(wallets) :
             (i # j /\ wallets[i].network = wallets[j].network)
                => wallets[i].derivationIndex # wallets[j].derivationIndex)
    /\ [][Len(wallets') > Len(wallets)
            => /\ Len(wallets') = Len(wallets) + 1
               /\ \A i \in WalletsOf(wallets'[Len(wallets')].network) :
                     wallets[i].derivationIndex
                        < wallets'[Len(wallets')].derivationIndex]_vars

\* two calls derived the same index concurrently: the wallet of one is in the
\* pool, and the other, with a matching key, is about to create its row
C18_Witness ==
    \E c \in Callers, i \in Indices(wallets) :
        /\ ga[c].pc = "genCreate"
        /\ AddressMatchesKey(ga[c].address, ga[c].privateKey)
        /\ wallets[i].network = ga[c].network
        /\ wallets[i].derivationIndex = ga[c].nextIndex

----------------------------------------------------------------------------
(* C19 *)

\* the wallets on which the user holds a lease that has not expired
UnexpiredLeasesOf(userId, network) ==
    { i \in Indices(wallets) :
        /\ wallets[i].assignedToUserId = userId
        /\ wallets[i].network = network
        /\ wallets[i].expiresAt # NULL
        /\ wallets[i].expiresAt > now }

\* C19: a createDeposit with an amount below the minimum ends at once with a
\* bad request, and so does one whose user holds no unexpired lease on the
\* network when the lease is looked up; the call has then ended and has
\* added no deposit.
C19_CreateDepositRejects ==
    [][/\ (op.pc = "idle" /\ op'.kind = "createDeposit" /\ op' # op
            /\ op'.amount < MIN_DEPOSIT)
           => /\ op'.pc = "idle"
              /\ op'.result = "badRequest"
              /\ deposits' = deposits
       /\ (op.pc = "createFind" /\ op' # op
            /\ UnexpiredLeasesOf(op.userId, op.network) = {})
           => /\ op'.pc = "idle"
              /\ op'.result = "badRequest"
              /\ deposits' = deposits]_vars

\* a request of a sufficient amount was rejected for the lack of a lease,
\* while an expired lease of the user was still on a wallet of the network
C19_Witness ==
    /\ op.pc = "idle"
    /\ op.kind = "createDeposit"
    /\ op.result = "badRequest"
    /\ op.amount >= MIN_DEPOSIT
    /\ \E i \in Indices(wallets) :
          /\ wallets[i].assignedToUserId = op.userId
          /\ wallets[i].network = op.network
          /\ wallets[i].expiresAt <= now

----------------------------------------------------------------------------
(* C20 *)

\* C20: the lookup of a createDeposit picks a wallet on which the caller holds
\* an unexpired lease; the write that ends a successful createDeposit adds
\* exactly one deposit, PENDING, owned by the caller, with the address, the
\* wallet and the expiry of an unexpired lease the caller holds on the
\* network at that moment, and changes no user, no wallet and no transaction.
C20_CreateDepositFollowsLease ==
    [][/\ (op.pc = "createFind" /\ op'.pc = "createWrite")
           => /\ op'.walletId \in UnexpiredLeasesOf(op.userId, op.network)
              /\ op'.address = wallets[op'.walletId].address
              /\ op'.expiresAt = wallets[op'.walletId].expiresAt
       /\ (op.pc = "createWrite" /\ op' # op)
           => /\ op'.pc = "idle"
              /\ op'.result = "ok"
              /\ Len(deposits') = Len(deposits) + 1
              /\ SubSeq(deposits', 1, Len(deposits)) = deposits
              /\ LET row == deposits'[Len(deposits')]
                 IN  /\ row.status = "PENDING"
                     /\ row.userId = op.userId
                     /\ row.network = op.network
                     /\ row.amount = op.amount
                     /\ \E i \in UnexpiredLeasesOf(op.userId, op.network) :
                           /\ row.depositAddress = wallets[i].address
                           /\ row.depositWalletId = i
                           /\ row.expiresAt = wallets[i].expiresAt
              /\ users' = users
              /\ wallets' = wallets
              /\ transactions' = transactions]_vars

\* a createDeposit has succeeded on a lease that was taken at time 1 and is
\* still running
C20_Witness ==
    /\ op.pc = "idle"
    /\ op.kind = "createDeposit"
    /\ op.result = "ok"
    /\ Len(deposits) >= 1
    /\ deposits[Len(deposits)].status = "PENDING"
    /\ deposits[Len(deposits)].expiresAt = 2
    /\ \E i \in UnexpiredLeasesOf("u1", "BEP20") :
          deposits[Len(deposits)].depositWalletId = i

----------------------------------------------------------------------------
(* C21 *)

\* C21: a request for an address on a network other than BEP20 and TRC20
\* ends at once with a bad request and leaves the pool as it was; no call
\* with such a network is ever inside the pool service, and no wallet of
\* such a network exists.
C21_InvalidNetworkRejected ==
    /\ [](/\ \A c \in Callers :
               ga[c].network \notin {"BEP20", "TRC20"} => ga[c].pc = "idle"
          /\ \A i \in Indices(wallets) :
               wallets[i].network \in {"BEP20", "TRC20"})
    /\ [][\A c \in Callers :
            (ga'[c] # ga[c] /\ ga'[c].network \notin {"BEP20", "TRC20"})
            => /\ ga'[c].pc = "idle"
               /\ ga'[c].result = "badRequest"
               /\ wallets' = wallets]_vars

\* a request with the lower-case name of a network was rejected while the
\* pool held a leased wallet
C21_Witness ==
    \E c \in Callers :
        /\ ga[c].pc = "idle"
        /\ ga[c].network = "bep20"
        /\ ga[c].result = "badRequest"
        /\ \E i \in Indices(wallets) : ~wallets[i].isAvailable

----------------------------------------------------------------------------
(* C22 *)

\* C22: a confirmDeposit whose lookup finds no deposit ends with not-found,
\* one whose lookup finds a CONFIRMED deposit ends with a bad request, and in
\* both cases the step changes no deposit, user, transaction or wallet.
C22_ConfirmDepositRejects ==
    [][(op.pc = "confirmFind" /\ op' # op)
       => /\ op.depositId \notin Indices(deposits)
             => /\ op'.pc = "idle"
                /\ op'.result = "notFound"
                /\ UNCHANGED db
          /\ (/\ op.depositId \in Indices(deposits)
              /\ deposits[op.depositId].status = "CONFIRMED")
             => /\ op'.pc = "idle"
                /\ op'.result = "badRequest"
                /\ UNCHANGED db]_vars

\* a manual confirmation with t1 of a deposit that the webhook had confirmed
\* with t2 was rejected
C22_Witness ==
    /\ op.pc = "idle"
    /\ op.kind = "confirmDeposit"
    /\ op.result = "badRequest"
    /\ op.depositId \in Indices(deposits)
    /\ deposits[op.depositId].status = "CONFIRMED"
    /\ deposits[op.depositId].txHash = "t2"

----------------------------------------------------------------------------
(* C23 *)

\* the lease on the wallet has run out and the cron job has not released it
ExpiredUnreleased(w) ==
    /\ w \in Indices(wallets)
    /\ wallets[w].assignedToUserId # NoUser
    /\ wallets[w].expiresAt # NULL
    /\ wallets[w].expiresAt < now

\* C23: a USDT notification of amount 100 at a wallet whose lease has run out
\* but is still written on it goes on to the credit of the holder, and its
\* commit adds a CONFIRMED deposit of the holder and raises the holder's
\* balance by the amount and the bonus and the lifetime deposits by the
\* amount, the bonus being the one a running lease would give.
C23_ExpiredLeaseStillCredits ==
    [][\A h \in Handlers :
          LET w == findWalletByAddress(wh[h].address)
              u == wallets[w].assignedToUserId
              a == parseFloat(wh[h].amount).v
          IN  (ExpiredUnreleased(w) /\ wh[h].asset = <<"USDT">>
                  /\ wh[h].amount = "100")
              => /\ (wh[h].pc = "wallet" /\ wh'[h] # wh[h])
                    => /\ wh'[h].pc = "user"
                       /\ wh'[h].wUser = u
                       /\ wh'[h].walletId = w
                 /\ (wh[h].pc = "commit" /\ wh'[h].pc = "mark")
                    => /\ wh[h].wUser = u
                       /\ Len(deposits') = Len(deposits) + 1
                       /\ LET row == deposits'[Len(deposits')]
                          IN  /\ row.status = "CONFIRMED"
                              /\ row.userId = u
                              /\ row.amount = a
                              /\ row.txHash = wh[h].txId
                              /\ row.bonusAmount = BonusAmount(a, ExistingBonus(u))
                              /\ users'[u].balance
                                   = users[u].balance + a + row.bonusAmount
                              /\ users'[u].totalDeposits
                                   = users[u].totalDeposits + a]_vars

\* the commit of a notification has just credited the holder of a lease that
\* had run out before the notification arrived
C23_Witness ==
    \E h \in Handlers :
        /\ wh[h].pc = "mark"
        /\ ExpiredUnreleased(findWalletByAddress(wh[h].address))
        /\ wallets[findWalletByAddress(wh[h].address)].expiresAt = 1
        /\ Len(deposits) = 1
        /\ deposits[1].status = "CONFIRMED"
        /\ deposits[1].userId = "u1"
        /\ users["u1"].balance = 103

----------------------------------------------------------------------------
(* C24 *)

\* C24: where u1 is the only user that ever leases a wallet, a USDT
\* notification of amount 100 at any wallet of the pool, whether its lease
\* runs, has run out or has been released by the cron job, goes on to the
\* credit of u1.
C24_LateTransferCreditsFormerHolder ==
    [][\A h \in Handlers :
          (/\ wh[h].pc = "wallet"
           /\ wh'[h] # wh[h]
           /\ findWalletByAddress(wh[h].address) # 0
           /\ wh[h].asset = <<"USDT">>
           /\ wh[h].amount = "100")
          => /\ wh'[h].pc = "user"
             /\ wh'[h].wUser = "u1"]_vars

----------------------------------------------------------------------------
(* C25 *)

\* the store before the notification
StoreBefore ==
    [ users |-> Accounts(<<"alice">>), wallets |-> PoolInUse(3),
      deposits |-> <<>>, transactions |-> <<>> ]

\* the store and the response after a notification <<address, txId, amount,
\* asset>> whose processing ended with the log line `line`: a function of the
\* payload and of the outcome of the storage writes, not of the signature
StoreAfter(address, txId, amount, asset, line) ==
    CASE line = "wrong currency" ->
           [ StoreBefore EXCEPT
               !.deposits = << DepositRow("u1", parseFloatOrZero(amount), "BEP20",
                                          address, 1, txId, asset, "FAILED", 0,
                                          NULL) >> ]
      [] line = "deposit confirmed" ->
           [ users |-> [ StoreBefore.users EXCEPT
                           !["u1"].balance = 103, !["u1"].totalDeposits = 100,
                           !["u2"].balance = 7 ],
             wallets |-> [ StoreBefore.wallets EXCEPT ![1].totalDeposits = 1 ],
             deposits |-> << DepositRow("u1", 100, "BEP20", address, 1, txId,
                                        asset, "CONFIRMED", 3, NULL) >>,
             transactions |->
                << TransactionRow("u1", "DEPOSIT", 100, txId,
                                  DepositDescription("BEP20")),
                   TransactionRow("u1", "DEPOSIT_BONUS", 3, NoTx,
                                  DepositBonusDescription),
                   TransactionRow("u2", "DEPOSIT_BONUS", 7, NoTx,
                                  ReferralBonusDescription(<<"alice">>)) >> ]
      [] OTHER -> StoreBefore

\* the log lines a notification can end with, by its payload
LinesOf(address, amount, asset) ==
    IF address = UnknownAddress THEN { "unknown address" }
    ELSE IF address = DeriveAddress("BEP20", 2) THEN { "failed to process" }
    ELSE IF asset # <<"USDT">> THEN { "wrong currency" }
    ELSE IF amount # "100" THEN { "invalid amount" }
    ELSE { "deposit confirmed", "failed to process" }

\* C25: whichever signature a notification carried (valid, invalid, absent,
\* or no secret configured), it is processed, and when it has been handled
\* the deposits, users, wallets, transaction records and the response are
\* those that its payload and the outcome of its storage writes determine.
C25_SignatureHasNoInfluence ==
    \A h \in Handlers :
        (wh[h].txId # NoTx /\ wh[h].pc = "idle")
        => /\ wh[h].logged \in LinesOf(wh[h].address, wh[h].amount, wh[h].asset)
           /\ wh[h].result
                = (IF wh[h].logged = "failed to process" THEN "error" ELSE "ok")
           /\ [ users |-> users, wallets |-> wallets, deposits |-> deposits,
                transactions |-> transactions ]
                = StoreAfter(wh[h].address, wh[h].txId, wh[h].amount,
                             wh[h].asset, wh[h].logged)

\* a notification with an invalid signature was credited
C25_Witness ==
    /\ wh["h1"].pc = "idle"
    /\ ~wh["h1"].signatureValid
    /\ wh["h1"].logged = "deposit confirmed"
    /\ users["u1"].balance = 103

----------------------------------------------------------------------------
(* C26 *)

\* the confirmed deposits of a user that carry a bonus
BonusDepositsOf(u) == SelectSeq(ConfirmedOf(u), LAMBDA d : d.bonusAmount > 0)

\* no two deposits have the same txHash
DistinctTxIds ==
    \A i, j \in Indices(deposits) :
        i # j => deposits[i].txHash # deposits[j].txHash

\* C26: when transfers with distinct txIds are processed concurrently, at
\* most one deposit of a user carries the deposit bonus, the user holds at
\* most one bonus record, and the referrer holds at most one commission
\* record for that user.
C26_ConcurrentOneTimeBonus ==
    DistinctTxIds =>
        \A u \in UserIds :
            /\ Len(BonusDepositsOf(u)) <= 1
            /\ Len(OwnBonusRecordsOf(u)) <= 1
            /\ users[u].referredBy # NoUser
                 => Len(CommissionRecords(users[u].referredBy,
                                          users[u].username)) <= 1

----------------------------------------------------------------------------
(* C27 *)

\* the records of a referrer for the deposits of one user, of either path:
\* "7% referral bonus from <name>'s deposit" and "7% referral bonus from <name>"
CommissionsOfEitherPath(referrerId, username) ==
    SelectSeq(transactions,
              LAMBDA r : /\ r.userId = referrerId
                         /\ r.type \in {"DEPOSIT_BONUS", "REFERRAL_BONUS"}
                         /\ Contains(r.description,
                                     <<"referral bonus ", "from ">> \o username))

\* C27: over any sequence of webhook confirmations and manual confirmations
\* of a user's deposits, the user holds at most one deposit bonus record and
\* at most one of the user's deposits carries a bonus, and the referrer holds
\* at most one commission record for the user.
C27_OneTimeAcrossPaths ==
    \A u \in UserIds :
        /\ Len(OwnBonusRecordsOf(u)) <= 1
        /\ Len(BonusDepositsOf(u)) <= 1
        /\ users[u].referredBy # NoUser
             => Len(CommissionsOfEitherPath(users[u].referredBy,
                                            users[u].username)) <= 1

----------------------------------------------------------------------------
(* C28 *)

\* C28: the user that the commit of a notification credits is the holder of
\* the wallet at the moment of that commit.
C28_CreditedUserHoldsWallet ==
    [][\A h \in Handlers :
          (wh[h].pc = "commit" /\ wh'[h].pc = "mark")
          => /\ wallets[wh[h].walletId].assignedToUserId = wh[h].wUser
             /\ deposits'[Len(deposits')].userId
                  = wallets[wh[h].walletId].assignedToUserId]_vars

----------------------------------------------------------------------------
(* C29 *)

\* the deposits of a user, of any status
DepositsOwnedBy(u) == SelectSeq(deposits, LAMBDA d : d.userId = u)

\* the DEPOSIT records of a user
CreditRecordsOf(u) ==
    SelectSeq(transactions, LAMBDA r : r.userId = u /\ r.type = "DEPOSIT")

\* C29: over any sequence of confirmations and cancellations, a user's
\* lifetime deposits never exceed the sum of the amounts of the user's
\* deposits, and the user has no more DEPOSIT records than deposits: no
\* deposit was credited twice.
C29_DepositCreditedAtMostOnce ==
    \A u \in UserIds :
        /\ users[u].totalDeposits <= SumAmount(DepositsOwnedBy(u))
        /\ Len(CreditRecordsOf(u)) <= Len(DepositsOwnedBy(u))

----------------------------------------------------------------------------
(* C30 *)

\* C30: the commit of a confirmDeposit is only ever run for a caller of the
\* admin route.
C30_OnlyAdminConfirms ==
    [][(op.pc = "confirmCommit" /\ op' # op) => op.caller = "admin"]_vars
----------------------------------------------------------------------------
(* C31 *)

\* the wallet with this id is leased and its expiry has passed
LeaseExpired(w) ==
    /\ w \in Indices(wallets)
    /\ ~wallets[w].isAvailable
    /\ wallets[w].expiresAt # NULL
    /\ wallets[w].expiresAt < now

\* the wallet with this id is available again
LeaseReleased(w) ==
    /\ w \in Indices(wallets)
    /\ wallets[w].isAvailable
    /\ wallets[w].assignedToUserId = NoUser
    /\ wallets[w].expiresAt = NULL

\* C31: while the cron job keeps running and its storage calls complete,
\* every wallet that is leased with expiresAt in the past eventually becomes
\* available again
C31_ExpiredLeaseEventuallyReleased ==
    \A w \in 1..MaxWallets : LeaseExpired(w) ~> LeaseReleased(w)

\* two leases are past their expiry at once and the cron job has read both
C31_Witness ==
    /\ LeaseExpired(1)
    /\ LeaseExpired(2)
    /\ rp.pc = "release"
    /\ rp.expired = {1, 2}
----------------------------------------------------------------------------
(* C32 *)

\* holder, lease start, expiry and availability of every wallet
LeaseFields ==
    [ i \in Indices(wallets) |->
        << wallets[i].assignedToUserId, wallets[i].assignedAt,
           wallets[i].expiresAt, wallets[i].isAvailable >> ]

\* the call in slot c returned this wallet as a lease that existed before
ReturnedExisting(c, w) ==
    /\ ga'[c].pc = "idle"
    /\ ga'[c].result = "ok"
    /\ ga'[c].address = wallets[w].address
    /\ ga'[c].expiresAt = wallets[w].expiresAt
    /\ ga'[c].isNew = FALSE

\* C32: a call of getOrAssignWallet by a user who holds a non-expired lease
\* on the network returns the address and the expiresAt of that lease with
\* isNew = false and changes the lease fields of no wallet; a call that
\* writes a new lease writes expiresAt = assignedAt + 1 hour, with assignedAt
\* the time of the call, and returns that expiresAt
C32_GetOrAssignIdempotent ==
    [][\A c \in Callers :
        /\ ( /\ ga[c].pc = "existing"
             /\ ActiveAssignments(ga[c].userId, ga[c].network) # {}
             /\ ga'[c] # ga[c] )
           => /\ LeaseFields' = LeaseFields
              /\ \E w \in ActiveAssignments(ga[c].userId, ga[c].network) :
                    \/ ReturnedExisting(c, w)
                    \/ ga'[c].pc = "ensureExisting" /\ ga'[c].walletId = w
        /\ ( ga[c].pc = "ensureExisting" /\ ga'[c] # ga[c] )
           => /\ LeaseFields' = LeaseFields
              /\ ga[c].walletId \in ActiveAssignments(ga[c].userId, ga[c].network)
              /\ ReturnedExisting(c, ga[c].walletId)
        /\ ( ga[c].pc = "assign" /\ ga'[c] # ga[c] )
           => LET w == ga[c].walletId
              IN  /\ wallets'[w].assignedToUserId = ga[c].userId
                  /\ wallets'[w].assignedAt = now
                  /\ wallets'[w].expiresAt = now + WALLET_ASSIGNMENT_DURATION
                  /\ ga'[c].expiresAt = wallets'[w].expiresAt
    ]_vars

\* u1 asked twice at time 0: the second call returned the lease of the first
C32_Witness ==
    /\ now = 0
    /\ Len(wallets) = 1
    /\ wallets[1].assignedToUserId = "u1"
    /\ wallets[1].expiresAt = 1
    /\ ga["c1"].pc = "idle"
    /\ ga["c1"].result = "ok"
    /\ ga["c1"].isNew = FALSE
    /\ ga["c1"].address = wallets[1].address
    /\ ga["c1"].expiresAt = 1
----------------------------------------------------------------------------
(* C33 *)

\* the available wallets of a network
AvailableWallets(network) ==
    { i \in Indices(wallets) :
        wallets[i].network = network /\ wallets[i].isAvailable }

\* least recently used first: a wallet that was never used comes before
\* every wallet that was used
UsedNoLaterThan(i, j) ==
    \/ wallets[i].lastUsedAt = NULL
    \/ /\ wallets[j].lastUsedAt # NULL
       /\ wallets[i].lastUsedAt <= wallets[j].lastUsedAt

\* C33: when the caller has no active lease and the network has an
\* available wallet, getOrAssignWallet selects an available wallet of that
\* network that no other available wallet of the network precedes in the
\* order of last use, a never used wallet being the least recently used, and
\* derives no new wallet
C33_LeastRecentlyUsedSelected ==
    [][\A c \in Callers :
        ( /\ ga[c].pc = "available"
          /\ ga'[c] # ga[c]
          /\ AvailableWallets(ga[c].network) # {} )
        => /\ ga'[c].pc \in { "assign", "ensureAvailable" }
           /\ ga'[c].walletId \in AvailableWallets(ga[c].network)
           /\ \A j \in AvailableWallets(ga[c].network) :
                 UsedNoLaterThan(ga'[c].walletId, j)
           /\ wallets' = wallets
    ]_vars
----------------------------------------------------------------------------
(* C34 *)

\* the accepted asset identifiers of a chain: the symbol names and the
\* contract addresses of the token on that chain
AcceptedAssets(network) ==
    IF network = "BEP20"
    THEN { <<"USDT">>, <<"USDT", "_BSC">>, <<"BSC_", "USDT">>,
           <<"BEP20_", "USDT">>,
           <<"0x55d398326f99059fF775485246999027B3197955">>,
           <<"0x337610d27c682E347C9cD60BD4b3b107C9d34dDd">> }
    ELSE { <<"USDT">>, <<"USDT", "_TRON">>, <<"TRC20_", "USDT">>,
           <<"TR7NHqjeKQxGTCi8q8ZY4pL8otSzgjLj6t">> }

\* the label is one of the accepted identifiers of the chain
IsAcceptedAsset(network, asset) ==
    \E valid \in AcceptedAssets(network) :
        toUpperCase(asset) = toUpperCase(valid)

\* C34: every deposit that was credited carries an asset label that is an
\* accepted identifier for the chain of its wallet, and a balance is only
\* held by users with such a deposit; a label of the other chain and a label
\* that only contains an accepted identifier are never credited
C34_OnlyAcceptedAssetCredited ==
    /\ \A i \in Indices(deposits) :
          deposits[i].status = "CONFIRMED"
            => IsAcceptedAsset(deposits[i].network, deposits[i].currency)
    /\ \A u \in UserIds :
          users[u].balance > 0
            => \E i \in Indices(deposits) :
                  /\ deposits[i].status = "CONFIRMED"
                  /\ IsAcceptedAsset(deposits[i].network, deposits[i].currency)
----------------------------------------------------------------------------
(* C35 *)

\* the users whose balance a step changes
BalanceChanged == { u \in UserIds : users'[u].balance # users[u].balance }

\* the depositor of the delivery in slot h and the depositor's referrer
DepositorAndReferrer(h) ==
    IF wh[h].wUser = NoUser THEN {}
    ELSE {wh[h].wUser} \cup ({users[wh[h].wUser].referredBy} \ {NoUser})

\* C35: a step of a webhook delivery changes the balance of the holder of
\* the wallet and of the holder's direct referrer only; u3, the referrer of
\* u1's referrer, never has a balance when u1 and u4 deposit, and a deposit
\* of u4, who has no referrer, changes the balance of u4 alone
C35_OnlyDepositorAndReferrerPaid ==
    /\ [](users["u3"].balance = 0)
    /\ [][ /\ BalanceChanged # {}
             => \E h \in Handlers :
                   /\ wh[h].pc # "idle"
                   /\ wh'[h] # wh[h]
                   /\ BalanceChanged \subseteq DepositorAndReferrer(h)
           /\ \A h \in Handlers :
                 (wh[h].wUser = "u4" /\ wh'[h] # wh[h])
                   => BalanceChanged \subseteq {"u4"} ]_vars

\* u1 and u4 deposited 100 each: u1, u1's referrer u2 and u4 were credited
\* and nobody else
C35_Witness ==
    /\ Len(deposits) = 2
    /\ \A i \in Indices(deposits) : deposits[i].status = "CONFIRMED"
    /\ users["u1"].balance = 103
    /\ users["u2"].balance = 7
    /\ users["u4"].balance = 103
    /\ users["u3"].balance = 0
    /\ Finished("h1", {"deposit confirmed"})
----------------------------------------------------------------------------
(* C36 *)

\* amount strings that are not a number or not positive
InvalidAmounts == { "0", "-100", "abc", "100abc" }

\* the notification in slot h is for an address outside the pool, or it is
\* for a leased wallet with a valid asset and an invalid amount
ToBeDiscarded(h) ==
    LET w == findWalletByAddress(wh[h].address)
    IN  \/ w = 0
        \/ /\ wallets[w].assignedToUserId # NoUser
           /\ wh[h].asset = <<"USDT">>
           /\ wh[h].amount \in InvalidAmounts

\* C36: no step of the handling of a notification for an unknown address,
\* or of a valid-asset notification with a non-numeric or non-positive
\* amount for a leased wallet, changes a deposit, a transaction record, a
\* user or a wallet; the handling ends with status ok, and no deposit is
\* ever stored for the unknown address
C36_DiscardPathsChangeNothing ==
    /\ [](\A i \in Indices(deposits) :
             deposits[i].depositAddress # UnknownAddress)
    /\ [][\A h \in Handlers :
            (wh[h].pc # "idle" /\ wh'[h] # wh[h] /\ ToBeDiscarded(h))
              => /\ db' = db
                 /\ wh'[h].pc = "idle"
                      => /\ wh'[h].result = "ok"
                         /\ wh'[h].logged \in { "already processed",
                                 "unknown address", "invalid amount" } ]_vars
----------------------------------------------------------------------------
(* C37 *)

\* the deposit of the delivery in slot h is stored as CONFIRMED with its
\* DEPOSIT record, and the holder has at least the credit of this deposit
CommitStands(h) ==
    /\ \E i \in Indices(deposits) :
          /\ deposits[i].txHash = wh[h].txId
          /\ deposits[i].status = "CONFIRMED"
          /\ deposits[i].userId = wh[h].wUser
          /\ users[wh[h].wUser].balance
               >= deposits[i].amount + deposits[i].bonusAmount
    /\ \E k \in Indices(transactions) :
          /\ transactions[k].type = "DEPOSIT"
          /\ transactions[k].reference = wh[h].txId
          /\ transactions[k].userId = wh[h].wUser

\* C37: when the deposit-confirmed notification fails after the commit, the
\* commit stands while the failure is handled and after it, nothing in the
\* store changes, and the delivery is answered with status ok
C37_EmailFailureKeepsCommit ==
    /\ [](\A h \in Handlers : wh[h].pc = "emailFailed" => CommitStands(h))
    /\ [][\A h \in Handlers :
            /\ (wh[h].pc = "email" /\ wh'[h] # wh[h]) => db' = db
            /\ (wh[h].pc = "emailFailed" /\ wh'[h] # wh[h])
                 => /\ db' = db
                    /\ CommitStands(h)
                    /\ wh'[h].pc = "idle"
                    /\ wh'[h].result = "ok"
                    /\ HttpStatusOf(wh'[h].result) = 200 ]_vars

\* the notification for u1's first deposit failed: the handler is in its
\* catch block, u1 holds 103 and the referrer u2 holds 7
C37_Witness ==
    /\ wh["h1"].pc = "emailFailed"
    /\ wh["h1"].wUser = "u1"
    /\ Len(deposits) = 1
    /\ deposits[1].status = "CONFIRMED"
    /\ users["u1"].balance = 103
    /\ users["u2"].balance = 7
    /\ Len(transactions) = 3
----------------------------------------------------------------------------
(* C38 *)

\* u1 has a CONFIRMED deposit and u1's referrer u2 has no commission record
\* for u1
CommissionUnpaid ==
    /\ \E i \in Indices(deposits) :
          deposits[i].userId = "u1" /\ deposits[i].status = "CONFIRMED"
    /\ CommissionRecords("u2", users["u1"].username) = <<>>

\* u2 holds a commission record for u1
CommissionPaid == CommissionRecords("u2", users["u1"].username) # <<>>

\* C38: when every delivery is handled to its end and notifications are
\* delivered again, a CONFIRMED webhook deposit of u1 whose referrer has not
\* been paid for u1 leads to the referrer's commission
C38_CommissionEventuallyPaid == CommissionUnpaid ~> CommissionPaid
----------------------------------------------------------------------------
(* C39 *)

\* C39: the markWalletUsed step of a credited webhook deposit adds one to
\* the deposit counter of the wallet, stamps its last-used time and changes
\* nothing else of any wallet, so holder, lease start, expiry and
\* availability stay; every credited deposit on a leased wallet, a second
\* one with a new txId included, is owned by the holder of the wallet
C39_MarkWalletUsedKeepsLease ==
    /\ [](\A i \in Indices(deposits) :
             deposits[i].status = "CONFIRMED"
               => /\ deposits[i].userId
                       = wallets[deposits[i].depositWalletId].assignedToUserId
                  /\ ~wallets[deposits[i].depositWalletId].isAvailable)
    /\ [][\A h \in Handlers :
            (wh[h].pc = "mark" /\ wh'[h] # wh[h])
              => LET w == wh[h].walletId
                 IN  /\ LeaseFields' = LeaseFields
                     /\ wallets'[w].totalDeposits = wallets[w].totalDeposits + 1
                     /\ wallets'[w].lastUsedAt = now
                     /\ wallets' = [wallets EXCEPT
                                      ![w].totalDeposits = wallets'[w].totalDeposits,
                                      ![w].lastUsedAt = wallets'[w].lastUsedAt] ]_vars

\* two notifications with different txIds for u1's wallet were credited to
\* u1 within the lease, and the wallet counts two deposits
C39_Witness ==
    /\ Len(deposits) = 2
    /\ deposits[1].txHash # deposits[2].txHash
    /\ \A i \in Indices(deposits) :
          /\ deposits[i].status = "CONFIRMED"
          /\ deposits[i].userId = "u1"
          /\ deposits[i].depositWalletId = 1
    /\ wallets[1].totalDeposits = 2
    /\ wallets[1].assignedToUserId = "u1"
    /\ wallets[1].expiresAt = 3
    /\ ~wallets[1].isAvailable
    /\ users["u1"].totalDeposits = 200
----------------------------------------------------------------------------
(* C40 *)

\* the sweep in op sent funds
FundsSent == op.kind = "transferToMaster" /\ op.txHash # NoTx

\* the sweep in op ended with an error
SweepFailed ==
    /\ op.kind = "transferToMaster"
    /\ op.pc = "idle"
    /\ op.result # "ok"
    /\ op.txHash = NoTx

\* C40: a sweep of a wallet that does not exist, of a wallet whose network
\* has no master address, or of a wallet whose balance is not positive ends
\* with an error and without a send, a failed balance query being read as
\* no balance; funds are sent only from the send step, to a configured
\* master address and with a positive balance; no step of a sweep changes a
\* wallet
C40_TransferToMasterFailsClosed ==
    /\ [](\A n \in Networks :
             NoBalance(parseFloat(getWalletBalance(n, "fail").usdtBalance).v))
    /\ [](FundsSent => op.result = "ok" /\ op.address # NoMaster /\ op.amount > 0)
    /\ [][(op.kind = "transferToMaster" /\ op.pc # "idle" /\ op' # op)
            => /\ wallets' = wallets
               /\ users' = users /\ deposits' = deposits
               /\ (op.pc = "sweepFind" /\ op.walletId \notin Indices(wallets))
                    => SweepFailed'
               /\ op.pc = "sweepFind"
                    => \/ SweepFailed'
                       \/ /\ op'.pc = "sweepBalance"
                          /\ op'.address
                               = <<"master", wallets[op.walletId].network>>
               /\ op.pc = "sweepBalance"
                    => \/ SweepFailed'
                       \/ op'.pc = "sweepSend" /\ op'.amount > 0
               /\ FundsSent'
                    => /\ op.pc = "sweepSend"
                       /\ op.address # NoMaster
                       /\ op.amount > 0 ]_vars

\* the sweep of a wallet leased to u1 sent its balance of 100 to the master
\* address and the wallet is still leased to u1
C40_Witness ==
    /\ FundsSent
    /\ op.pc = "idle"
    /\ op.amount = 100
    /\ op.address = <<"master", "BEP20">>
    /\ op.walletId \in Indices(wallets)
    /\ wallets[op.walletId].assignedToUserId = "u1"
    /\ ~wallets[op.walletId].isAvailable

====
